---- MODULE Spec2Model ----
(***************************************************************************)
(* Model of the storage command handlers of                                *)
(* internal/commands/storage_run.go.                                       *)
(*                                                                         *)
(* One command invocation is: the pre-run step acquires the storage        *)
(* provider (LoadProvidersStorageRunE), one RunE handler runs to its       *)
(* return, the process exits.  A handler is one action: it reads its flags *)
(* (its inputs, drawn with \E), makes its backend calls in the order of    *)
(* the code and leaves in `last` what it did: the gate's result, the       *)
(* mutating backend calls it made, the error it returned.  The provider's  *)
(* Close is the deferred call of the handler: it runs on a return path     *)
(* exactly when the defer statement was executed before that return.       *)
(*                                                                         *)
(* The storage package is not part of the modelled file: the backend       *)
(* operations are modelled from the behaviour the specification gives them *)
(* and a backend fault (an I/O error of a call) is an input of the handler.*)
(***************************************************************************)
EXTENDS Integers, Sequences, FiniteSets, TLC

VARIABLES
    phase,          \* "idle" | "loaded" (pre-run done) | "returned"
    provider,       \* ctx.providers.StorageProvider: "none" | "open" | "closed"
    last,           \* what the handler of this invocation did
    schemaVersion,  \* backend: -1 unknown state, 0 no schema, 1..MaxVersion
    rowKey,         \* backend: the key each encrypted table's rows are under
    identifiers,    \* backend: the user_opaque_identifier rows
    totp,           \* backend: username -> TOTP configuration (or NoConfig)
    devices,        \* backend: the WebAuthn device rows
    sessions        \* the invocations running side by side, each one's position

vars ==
    <<phase, provider, last, schemaVersion, rowKey, identifiers, totp, devices,
      sessions>>

backend == <<schemaVersion, rowKey, identifiers, totp, devices>>

(***************************************************************************)
(* Bounds and domains.                                                     *)
(***************************************************************************)
\* The latest schema version the binary knows (the number of migrations).
MaxVersion == 2

\* A backend call of a handler may fail with an I/O error: the fault input
\* names the call (1st, 2nd, ...) that fails, 0 for none.
MaxFault == 3

Usernames == {"john", "mary"}

Sectors == {"", "example.com"}

\* const identifierServiceOpenIDConnect, the default of the add command.
identifierServiceOpenIDConnect == "openid"

\* The fixed set of valid service names; "bogus" stands for any other name.
validIdentifierServices == <<"openid", "saml">>

Services == {"openid", "saml", "bogus"}

EncryptedTables == {"totp_configurations", "webauthn_devices"}

InitialKey == "the-initial-encryption-key"

NoConfig == [secret |-> ""]

\* A Go error: nil is NoError; a wrapped error keeps its cause.
NoError == [msg |-> "", cause |-> ""]

Error(msg) == [msg |-> msg, cause |-> ""]

\* fmt.Errorf("...: %w", err)
Wrap(msg, err) == [msg |-> msg, cause |-> err.msg]

(***************************************************************************)
(* Small helpers.                                                          *)
(***************************************************************************)
Range(s) == {s[i] : i \in 1..Len(s)}

\* utils.IsStringInSlice
IsStringInSlice(needle, haystack) == needle \in Range(haystack)

\* utils.IsStringSliceContainsAll: every needle is in the haystack.
IsStringSliceContainsAll(needles, haystack) ==
    \A i \in 1..Len(needles) : IsStringInSlice(needles[i], haystack)

(***************************************************************************)
(* SchemaVersionGate: ctx.CheckSchemaVersion().  NoError is success.       *)
(***************************************************************************)
CheckSchemaVersion(version) ==
    IF version = -1 THEN Error("unknown schema state")
    ELSE IF version = 0 THEN Error("schema not initialized")
    ELSE IF version < MaxVersion THEN Error("schema outdated")
    ELSE NoError

\* storageWrapCheckSchemaErr adds the remediation hint; an error stays an error.
storageWrapCheckSchemaErr(err) == Wrap("command requires an up to date schema", err)

(***************************************************************************)
(* Opaque identifiers.                                                     *)
(***************************************************************************)
\* A parsed UUID: its version and the rest of its value.
\* uuid.NewRandom draws 122 random bits: the model gives the value generated
\* for a natural key a body no other identifier has.
NewRandom(service, sector, username) ==
    [version |-> 4, body |-> <<"random", service, sector, username>>]

\* The --identifier flag: the text, and what uuid.Parse makes of it.
IdentifierFlags ==
    { [text |-> "A4", parses |-> TRUE,  version |-> 4],
      [text |-> "C1", parses |-> TRUE,  version |-> 1],
      [text |-> "D5", parses |-> TRUE,  version |-> 5],
      [text |-> "zz", parses |-> FALSE, version |-> 0] }

UuidOf(flag) == [version |-> flag.version, body |-> <<"given", flag.text>>]

NaturalKey(r) == <<r.service, r.sector, r.username>>

\* containsIdentifier: membership by natural key, not by identifier value.
containsIdentifier(identifier, existing) ==
    \E r \in existing : NaturalKey(r) = NaturalKey(identifier)

\* Only the primary key kept unique.
SaveAcceptsAnyKey(store, r) == \A s \in store : s.identifier # r.identifier

\* StorageProvider.SaveUserOpaqueIdentifier: the identifier is the primary
\* key and (service, sector, username) is unique; a row breaking either is
\* refused.  TRUE when the row can be inserted.
SaveAccepts(store, r) ==
    /\ \A s \in store : s.identifier # r.identifier
    /\ \A s \in store : NaturalKey(s) # NaturalKey(r)

SaveUserOpaqueIdentifier(store, r) ==
    IF SaveAccepts(store, r) THEN store \cup {r} ELSE store

Call(op, arg, ok) == [op |-> op, arg |-> arg, ok |-> ok]

(***************************************************************************)
(* The invocation record.                                                  *)
(***************************************************************************)
\* No invocation runs beside the one followed in phase and last.
NoSessions == <<>>

NoInvocation ==
    [cmd |-> "none", in |-> <<>>, gate |-> "none", err |-> NoError,
     calls |-> <<>>, out |-> <<>>]

\* What a handler hands back: gate "none" (not called), "ok" or "fail";
\* err NoError when the handler returned nil; closed: the deferred Close ran.
Result(gate, err, closed, calls, out) ==
    [gate |-> gate, err |-> err, closed |-> closed, calls |-> calls, out |-> out]

Invocation(cmd, in, res) ==
    [cmd |-> cmd, in |-> in, gate |-> res.gate, err |-> res.err,
     calls |-> res.calls, out |-> res.out]

\* The handler returns: its deferred Close, if registered, has run.
Return(cmd, in, res) ==
    /\ phase = "loaded"
    /\ phase' = "returned"
    /\ provider' = IF res.closed THEN "closed" ELSE provider
    /\ last' = Invocation(cmd, in, res)
    /\ UNCHANGED sessions

(***************************************************************************)
(* LoadProvidersStorageRunE: the pre-run step.                             *)
(***************************************************************************)
LoadProvidersStorageRunE ==
    /\ phase = "idle"
    /\ \E certs \in {"ok", "errs", "warns"} :
          IF certs = "ok"
          THEN /\ provider' = "open"
               /\ phase' = "loaded"
               /\ last' = NoInvocation
          ELSE /\ provider' = provider
               /\ phase' = "returned"
               /\ last' = [NoInvocation EXCEPT !.cmd = "prerun",
                                               !.err = Error("trusted certificates")]
    /\ UNCHANGED <<backend, sessions>>

\* The process ends; the next invocation starts from nothing.
Exit ==
    /\ phase = "returned"
    /\ phase' = "idle"
    /\ provider' = "none"
    /\ last' = NoInvocation
    /\ UNCHANGED <<backend, sessions>>

(***************************************************************************)
(* StorageUserIdentifiersAddRunE.                                          *)
(***************************************************************************)
\* The flags and argument of the command, and the faults of its calls:
\* randomFails is uuid.NewRandom returning an error, fault = 1 the save
\* failing with an I/O error.
NoIdentifierFlag == [text |-> "", parses |-> FALSE, version |-> 0]

AddInputsOver(services, sectors, usernames, flags) ==
    [service : services, sector : sectors, username : usernames,
     identifierChanged : {TRUE}, identifier : flags,
     randomFails : {FALSE}, fault : 0..1]
    \cup
    [service : services, sector : sectors, username : usernames,
     identifierChanged : {FALSE}, identifier : {NoIdentifierFlag},
     randomFails : BOOLEAN, fault : 0..1]

\* Lines 889-893: the service defaults to openid; "" is no error.
AddService(service) ==
    IF service = "" THEN identifierServiceOpenIDConnect ELSE service

AddServiceError(service) ==
    IF service # "" /\ ~IsStringInSlice(service, validIdentifierServices)
    THEN Error("the service name is invalid") ELSE NoError

\* Every version from 4 up accepted.
AddIdentifierErrorBelow4(in) ==
    IF in.identifierChanged
    THEN IF ~in.identifier.parses THEN Error("parsing the identifier had an error")
         ELSE IF in.identifier.version < 4 THEN Error("only version 4 UUID's accepted")
         ELSE NoError
    ELSE IF in.randomFails THEN Error("uuid.NewRandom") ELSE NoError

\* Lines 905-923: the identifier given by flag, or a random one.
AddIdentifierError(in) ==
    IF in.identifierChanged
    THEN IF ~in.identifier.parses THEN Error("parsing the identifier had an error")
         ELSE IF in.identifier.version # 4 THEN Error("only version 4 UUID's accepted")
         ELSE NoError
    ELSE IF in.randomFails THEN Error("uuid.NewRandom") ELSE NoError

AddOpaqueID(in) ==
    [service |-> AddService(in.service), sector |-> in.sector,
     username |-> in.username,
     identifier |-> IF in.identifierChanged THEN UuidOf(in.identifier)
                    ELSE NewRandom(AddService(in.service), in.sector, in.username)]

UserIdentifiersAdd(in, version, store) ==
    LET opaqueID == AddOpaqueID(in)
        saved == in.fault # 1 /\ SaveAccepts(store, opaqueID)
        call == Call("SaveUserOpaqueIdentifier", opaqueID, saved)
    IN  IF AddServiceError(in.service) # NoError
        THEN [res |-> Result("none", AddServiceError(in.service), FALSE, <<>>, <<>>),
              store |-> store]
        ELSE IF AddIdentifierError(in) # NoError
        THEN [res |-> Result("none", AddIdentifierError(in), FALSE, <<>>, <<>>),
              store |-> store]
        \* line 925: defer Close
        ELSE IF CheckSchemaVersion(version) # NoError
        THEN [res |-> Result("fail", storageWrapCheckSchemaErr(CheckSchemaVersion(version)),
                             TRUE, <<>>, <<>>),
              store |-> store]
        ELSE IF ~saved
        THEN [res |-> Result("ok", Error("SaveUserOpaqueIdentifier"), TRUE, <<call>>, <<>>),
              store |-> store]
        ELSE [res |-> Result("ok", NoError, TRUE, <<call>>, opaqueID),
              store |-> SaveUserOpaqueIdentifier(store, opaqueID)]

StorageUserIdentifiersAddRunE(inputs) ==
    /\ phase = "loaded"
    /\ \E in \in inputs :
          LET r == UserIdentifiersAdd(in, schemaVersion, identifiers)
          IN  /\ Return("identifiers add", in, r.res)
              /\ identifiers' = r.store
              /\ UNCHANGED <<schemaVersion, rowKey, totp, devices>>

(***************************************************************************)
(* StorageUserIdentifiersGenerateRunE.                                     *)
(***************************************************************************)
\* The flags (flagsGetUserIdentifiersGenerateOptions: users, services,
\* sectors, or an error) and the faults: load is what
\* LoadUserOpaqueIdentifiers returns ("ok", "norows": sql.ErrNoRows, or
\* "error"), save the number of the SaveUserOpaqueIdentifier call that
\* fails with an I/O error, random the number of the uuid.NewRandom call
\* that fails (0: none).
GenerateFlags(users, services, sectors) ==
    [users : users, services : services, sectors : sectors, optsErr : {FALSE},
     load : {"ok"}, save : 0..MaxFault, random : {0}]

GenerateFaults(users, services, sectors) ==
    [users : users, services : services, sectors : sectors, optsErr : {FALSE},
     load : {"norows", "error"}, save : {0}, random : {0}]
    \cup
    [users : users, services : services, sectors : sectors, optsErr : {TRUE},
     load : {"ok"}, save : {0}, random : {0}]
    \cup
    [users : users, services : services, sectors : sectors, optsErr : {FALSE},
     load : {"ok"}, save : {0}, random : {1, 2}]

\* StorageProvider.LoadUserOpaqueIdentifiers: every row, or an error with
\* no rows.
LoadUserOpaqueIdentifiers(store, load) ==
    IF load = "ok" THEN store ELSE {}

\* The duplicate counted, the continue missing.
GenerateTupleNoContinue(st, existing, in, service, sector, username) ==
    LET identifier == [service |-> service, sector |-> sector,
                       username |-> username,
                       identifier |-> NewRandom(service, sector, username)]
        n == Len(st.calls) + 1
        saved == in.save # n /\ SaveAccepts(st.store, identifier)
        dup == IF containsIdentifier(identifier, existing) THEN 1 ELSE 0
    IN  IF in.random = n
        THEN [st EXCEPT !.duplicates = @ + dup,
                        !.err = Wrap("failed to generate a uuid", Error("rand"))]
        ELSE IF ~saved
        THEN [st EXCEPT !.duplicates = @ + dup,
                        !.err = Wrap("failed to save identifier",
                                     Error("SaveUserOpaqueIdentifier")),
                        !.calls = Append(@, Call("SaveUserOpaqueIdentifier",
                                                 identifier, FALSE))]
        ELSE [st EXCEPT !.duplicates = @ + dup,
                        !.store = SaveUserOpaqueIdentifier(@, identifier),
                        !.added = @ + 1,
                        !.calls = Append(@, Call("SaveUserOpaqueIdentifier",
                                                 identifier, TRUE))]

\* Lines 848-869: one tuple of the product.  st is the loop's state: the
\* store, the counters, the save calls made and the error that ended it.
GenerateTuple(st, existing, in, service, sector, username) ==
    LET identifier == [service |-> service, sector |-> sector,
                       username |-> username,
                       identifier |-> NewRandom(service, sector, username)]
        n == Len(st.calls) + 1
        saved == in.save # n /\ SaveAccepts(st.store, identifier)
    IN  IF containsIdentifier(identifier, existing)
        THEN [st EXCEPT !.duplicates = @ + 1]
        ELSE IF in.random = n
        THEN [st EXCEPT !.err = Wrap("failed to generate a uuid", Error("rand"))]
        ELSE IF ~saved
        THEN [st EXCEPT !.err = Wrap("failed to save identifier",
                                     Error("SaveUserOpaqueIdentifier")),
                        !.calls = Append(@, Call("SaveUserOpaqueIdentifier",
                                                 identifier, FALSE))]
        ELSE [st EXCEPT !.store = SaveUserOpaqueIdentifier(@, identifier),
                        !.added = @ + 1,
                        !.calls = Append(@, Call("SaveUserOpaqueIdentifier",
                                                 identifier, TRUE))]

\* The inner loop going on after a failed save.
RECURSIVE GenerateUsersNoStop(_, _, _, _, _, _)
GenerateUsersNoStop(st, existing, in, service, sector, k) ==
    IF k > Len(in.users) THEN st
    ELSE GenerateUsersNoStop(
             GenerateTuple(st, existing, in, service, sector, in.users[k]),
             existing, in, service, sector, k + 1)

\* Lines 845-872: the three nested loops; a return inside ends all three.
RECURSIVE GenerateUsers(_, _, _, _, _, _)
GenerateUsers(st, existing, in, service, sector, k) ==
    IF k > Len(in.users) \/ st.err # NoError THEN st
    ELSE GenerateUsers(GenerateTuple(st, existing, in, service, sector, in.users[k]),
                       existing, in, service, sector, k + 1)

RECURSIVE GenerateSectors(_, _, _, _, _, _)
GenerateSectors(st, existing, in, service, sectors, j) ==
    IF j > Len(sectors) \/ st.err # NoError THEN st
    ELSE GenerateSectors(GenerateUsers(st, existing, in, service, sectors[j], 1),
                         existing, in, service, sectors, j + 1)

RECURSIVE GenerateServices(_, _, _, _, _)
GenerateServices(st, existing, in, sectors, i) ==
    IF i > Len(in.services) \/ st.err # NoError THEN st
    ELSE GenerateServices(GenerateSectors(st, existing, in, in.services[i], sectors, 1),
                          existing, in, sectors, i + 1)

\* No default sector.
GenerateSectorsNoDefault(sectors) == sectors

\* Lines 835-837: no sector given is the single sector "".
GenerateSectorsDefault(sectors) ==
    IF Len(sectors) = 0 THEN Append(sectors, "") ELSE sectors

\* The service names not validated.
GenerateOptionsErrorNoServiceCheck(in) ==
    IF in.optsErr THEN Error("flags")
    ELSE IF Len(in.users) = 0 THEN Error("must supply at least one user")
    ELSE NoError

\* Lines 827-841: the checks between the load and the loops.
GenerateOptionsError(in) ==
    IF in.optsErr THEN Error("flags")
    ELSE IF Len(in.users) = 0 THEN Error("must supply at least one user")
    ELSE IF ~IsStringSliceContainsAll(in.services, validIdentifierServices)
    THEN Error("one or more the service names is invalid")
    ELSE NoError

UserIdentifiersGenerate(in, version, store) ==
    LET existing == LoadUserOpaqueIdentifiers(store, in.load)
        st0 == [store |-> store, added |-> 0, duplicates |-> 0,
                calls |-> <<>>, err |-> NoError]
        st == GenerateServices(st0, existing, in,
                               GenerateSectorsDefault(in.sectors), 1)
        out == [added |-> st.added, duplicates |-> st.duplicates,
                existing |-> existing]
    IN  \* line 814: defer Close
        IF CheckSchemaVersion(version) # NoError
        THEN [res |-> Result("fail", storageWrapCheckSchemaErr(CheckSchemaVersion(version)),
                             TRUE, <<>>, <<>>),
              store |-> store]
        ELSE IF in.load = "error"
        THEN [res |-> Result("ok", Wrap("can't load the existing identifiers",
                                        Error("LoadUserOpaqueIdentifiers")),
                             TRUE, <<>>, <<>>),
              store |-> store]
        ELSE IF GenerateOptionsError(in) # NoError
        THEN [res |-> Result("ok", GenerateOptionsError(in), TRUE, <<>>, <<>>),
              store |-> store]
        ELSE [res |-> Result("ok", st.err, TRUE, st.calls, out),
              store |-> st.store]

StorageUserIdentifiersGenerateRunE(inputs) ==
    /\ phase = "loaded"
    /\ \E in \in inputs :
          \* the backend answers sql.ErrNoRows only when it holds no row
          /\ in.load = "norows" => identifiers = {}
          /\ LET r == UserIdentifiersGenerate(in, schemaVersion, identifiers)
             IN  /\ Return("identifiers generate", in, r.res)
                 /\ identifiers' = r.store
                 /\ UNCHANGED <<schemaVersion, rowKey, totp, devices>>

(***************************************************************************)
(* StorageUserIdentifiersExportRunE and StorageUserIdentifiersImportRunE.  *)
(* The file system is a collaborator: what os.Stat, os.ReadFile and        *)
(* os.WriteFile answer are inputs, the document written is an output.      *)
(***************************************************************************)
\* The rows in the order the backend returns them.
RECURSIVE RowsOf(_)
RowsOf(store) ==
    IF store = {} THEN <<>>
    ELSE LET r == CHOOSE x \in store : TRUE
         IN  <<r>> \o RowsOf(store \ {r})

\* uuid.UUID.String and uuid.Parse of that text: the text carries the
\* version digit and the rest of the value.
UuidString(u) == <<"uuid", u.body, u.version>>

UuidParse(text) == [version |-> text[3], body |-> text[2]]

\* yaml.Marshal of model.UserOpaqueIdentifiersExport and yaml.Unmarshal.
MarshalRow(r) ==
    [service |-> r.service, sector_id |-> r.sector, username |-> r.username,
     identifier |-> UuidString(r.identifier)]

UnmarshalRow(d) ==
    [service |-> d.service, sector |-> d.sector_id, username |-> d.username,
     identifier |-> UuidParse(d.identifier)]

Marshal(rows) == [identifiers |-> [i \in 1..Len(rows) |-> MarshalRow(rows[i])]]

Unmarshal(data) ==
    [i \in 1..Len(data.identifiers) |-> UnmarshalRow(data.identifiers[i])]

\* stat: what os.Stat(file) found: "missing", "file", "dir" or "error";
\* load and write: a fault of LoadUserOpaqueIdentifiers and of os.WriteFile.
ExportInputs ==
    [stat : {"missing", "file", "dir", "error"}, load : {"ok"}, write : {FALSE}]
    \cup
    [stat : {"missing"}, load : {"error"}, write : {FALSE}]
    \cup
    [stat : {"missing"}, load : {"ok"}, write : {TRUE}]

UserIdentifiersExport(in, version, store) ==
    LET rows == RowsOf(LoadUserOpaqueIdentifiers(store, in.load))
    IN  IF in.stat \in {"file", "dir"}
        THEN Result("none", Error("must specify a file that doesn't exist"),
                    FALSE, <<>>, <<>>)
        ELSE IF in.stat = "error"
        THEN Result("none", Wrap("error occurred opening", Error("stat")),
                    FALSE, <<>>, <<>>)
        \* line 718: defer Close
        ELSE IF CheckSchemaVersion(version) # NoError
        THEN Result("fail", storageWrapCheckSchemaErr(CheckSchemaVersion(version)),
                    TRUE, <<>>, <<>>)
        ELSE IF in.load = "error"
        THEN Result("ok", Error("LoadUserOpaqueIdentifiers"), TRUE, <<>>, <<>>)
        ELSE IF Len(rows) = 0
        THEN Result("ok", Error("no data to export"), TRUE, <<>>, <<>>)
        ELSE IF in.write
        THEN Result("ok", Wrap("error occurred writing to file", Error("write")),
                    TRUE, <<>>, <<>>)
        ELSE Result("ok", NoError, TRUE, <<>>, Marshal(rows))

StorageUserIdentifiersExportRunE ==
    /\ phase = "loaded"
    /\ \E in \in ExportInputs :
          /\ Return("identifiers export", in,
                    UserIdentifiersExport(in, schemaVersion, identifiers))
          /\ UNCHANGED backend

\* stat as above; read: os.ReadFile or yaml.Unmarshal fails; data: the
\* document of the file; save: the number of the save that fails (0: none).
ImportInputs(documents) ==
    [stat : {"missing", "dir"}, read : {FALSE}, data : {Marshal(<<>>)}, save : {0}]
    \cup
    [stat : {"file"}, read : {TRUE}, data : {Marshal(<<>>)}, save : {0}]
    \cup
    [stat : {"file"}, read : {FALSE}, data : documents, save : 0..MaxFault]

\* The loop one record off: the first record of the file is never saved.
RECURSIVE ImportRowsFromSecond(_, _, _, _)
ImportRowsFromSecond(st, rows, in, i) ==
    IF i + 1 > Len(rows) \/ st.err # NoError THEN st
    ELSE LET saved == in.save # i /\ SaveAccepts(st.store, rows[i + 1])
             call == Call("SaveUserOpaqueIdentifier", rows[i + 1], saved)
         IN  ImportRowsFromSecond(
                 IF saved
                 THEN [st EXCEPT !.store = SaveUserOpaqueIdentifier(@, rows[i + 1]),
                                 !.calls = Append(@, call)]
                 ELSE [st EXCEPT !.err = Error("SaveUserOpaqueIdentifier"),
                                 !.calls = Append(@, call)],
                 rows, in, i + 1)

\* The loop going on after a failed save.
RECURSIVE ImportRowsNoStop(_, _, _, _)
ImportRowsNoStop(st, rows, in, i) ==
    IF i > Len(rows) THEN st
    ELSE LET saved == in.save # i /\ SaveAccepts(st.store, rows[i])
             call == Call("SaveUserOpaqueIdentifier", rows[i], saved)
         IN  ImportRowsNoStop(
                 IF saved
                 THEN [st EXCEPT !.store = SaveUserOpaqueIdentifier(@, rows[i]),
                                 !.calls = Append(@, call)]
                 ELSE [st EXCEPT !.err = Error("SaveUserOpaqueIdentifier"),
                                 !.calls = Append(@, call)],
                 rows, in, i + 1)

\* Lines 797-801: save every record in input order, stop at the first error.
RECURSIVE ImportRows(_, _, _, _)
ImportRows(st, rows, in, i) ==
    IF i > Len(rows) \/ st.err # NoError THEN st
    ELSE LET saved == in.save # i /\ SaveAccepts(st.store, rows[i])
             call == Call("SaveUserOpaqueIdentifier", rows[i], saved)
         IN  ImportRows(
                 IF saved
                 THEN [st EXCEPT !.store = SaveUserOpaqueIdentifier(@, rows[i]),
                                 !.calls = Append(@, call)]
                 ELSE [st EXCEPT !.err = Error("SaveUserOpaqueIdentifier"),
                                 !.calls = Append(@, call)],
                 rows, in, i + 1)

UserIdentifiersImport(in, version, store) ==
    LET rows == Unmarshal(in.data)
        st == ImportRows([store |-> store, calls |-> <<>>, err |-> NoError],
                         rows, in, 1)
    IN  IF in.stat = "missing"
        THEN [res |-> Result("none", Wrap("must specify a file that exists",
                                          Error("stat")), FALSE, <<>>, <<>>),
              store |-> store]
        ELSE IF in.stat = "dir"
        THEN [res |-> Result("none", Error("is a directory"), FALSE, <<>>, <<>>),
              store |-> store]
        ELSE IF in.read
        THEN [res |-> Result("none", Error("read"), FALSE, <<>>, <<>>),
              store |-> store]
        ELSE IF Len(rows) = 0
        THEN [res |-> Result("none", Error("can't import a file with no data"),
                             FALSE, <<>>, <<>>),
              store |-> store]
        \* line 789: defer Close
        ELSE IF CheckSchemaVersion(version) # NoError
        THEN [res |-> Result("fail", storageWrapCheckSchemaErr(CheckSchemaVersion(version)),
                             TRUE, <<>>, <<>>),
              store |-> store]
        ELSE [res |-> Result("ok", st.err, TRUE, st.calls, <<>>),
              store |-> st.store]

\* A row of an import document.
Row(service, sector, username, text) ==
    [service |-> service, sector |-> sector, username |-> username,
     identifier |-> [version |-> 4, body |-> <<"given", text>>]]

StorageUserIdentifiersImportRunE(inputs) ==
    /\ phase = "loaded"
    /\ \E in \in inputs :
          LET r == UserIdentifiersImport(in, schemaVersion, identifiers)
          IN  /\ Return("identifiers import", in, r.res)
              /\ identifiers' = r.store
              /\ UNCHANGED <<schemaVersion, rowKey, totp, devices>>

(***************************************************************************)
(* StorageSchemaEncryptionChangeKeyRunE.                                   *)
(***************************************************************************)
\* Line 225: the least length of a new key.
MinKeyLength == 20

\* Keys an operator may give: blank, one character short, just long enough.
NewKeys == {"", "nineteen-characters", "twenty-characters-ok",
            "a-second-key-of-24-chars"}

\* changed, flagKey: the --new-encryption-key flag; promptKey: what the
\* operator types when asked (promptErr: the terminal fails); fault 1: the
\* SchemaVersion call fails, fault 2 and 3: SchemaEncryptionChangeKey fails
\* at its first, at its second table.
ChangeKeyInputs ==
    [changed : {TRUE}, flagKey : NewKeys \ {""}, promptKey : {""},
     promptErr : {FALSE}, fault : 0..3]
    \cup
    [changed : {TRUE}, flagKey : {""}, promptKey : NewKeys,
     promptErr : {FALSE}, fault : {0}]
    \cup
    [changed : {FALSE}, flagKey : {""}, promptKey : NewKeys,
     promptErr : BOOLEAN, fault : {0}]

\* Lines 209-220: the key comes from the flag, or from the prompt when the
\* flag is not set or blank.
ChangeKeyPrompts(in) == ~in.changed \/ in.flagKey = ""

ChangeKeyKey(in) == IF ChangeKeyPrompts(in) THEN in.promptKey ELSE in.flagKey

\* The length compared one off.
ChangeKeyPolicyErrorOneShort(key) ==
    IF key = "" THEN Error("the new encryption key must not be blank")
    ELSE IF Len(key) < MinKeyLength - 1
    THEN Error("the new encryption key must be at least 20 characters")
    ELSE NoError

\* Lines 222-227: the key policy.
ChangeKeyPolicyError(key) ==
    IF key = "" THEN Error("the new encryption key must not be blank")
    ELSE IF Len(key) < MinKeyLength
    THEN Error("the new encryption key must be at least 20 characters")
    ELSE NoError

\* The order SchemaEncryptionChangeKey takes the encrypted tables in.
ChangeKeyTables == <<"totp_configurations", "webauthn_devices">>

\* The rows once the first n tables have been re-encrypted under the key.
ChangeKeyRows(keys, key, n) ==
    [t \in DOMAIN keys |->
        IF \E i \in 1..n : ChangeKeyTables[i] = t THEN key ELSE keys[t]]

\* The rotation without a transaction: what was re-encrypted before the
\* failure stays under the new key.
SchemaEncryptionChangeKeyNoRollback(keys, key, fault) ==
    IF fault \in 1..Len(ChangeKeyTables)
    THEN [err |-> Error("SchemaEncryptionChangeKey"),
          keys |-> ChangeKeyRows(keys, key, fault - 1)]
    ELSE [err |-> NoError, keys |-> ChangeKeyRows(keys, key, Len(ChangeKeyTables))]

\* StorageProvider.SchemaEncryptionChangeKey: the rows of every encrypted
\* table are put under the new key in one transaction; when the table
\* numbered `fault` fails the transaction is rolled back.
SchemaEncryptionChangeKey(keys, key, fault) ==
    IF fault \in 1..Len(ChangeKeyTables)
    THEN [err |-> Error("SchemaEncryptionChangeKey"), keys |-> keys]
    ELSE [err |-> NoError, keys |-> ChangeKeyRows(keys, key, Len(ChangeKeyTables))]

\* StorageProvider.SchemaEncryptionCheckKey: the rows of every encrypted
\* table decrypt under the key.
SchemaEncryptionCheckKey(keys, key) == \A t \in DOMAIN keys : keys[t] = key

SchemaEncryptionChangeKeyRun(in, version, keys) ==
    LET key == ChangeKeyKey(in)
        change == SchemaEncryptionChangeKey(keys, key, in.fault - 1)
        call == Call("SchemaEncryptionChangeKey", key, change.err = NoError)
    IN  \* line 193: defer Close
        IF CheckSchemaVersion(version) # NoError
        THEN [res |-> Result("fail", storageWrapCheckSchemaErr(CheckSchemaVersion(version)),
                             TRUE, <<>>, <<>>),
              keys |-> keys]
        ELSE IF in.fault = 1
        THEN [res |-> Result("ok", Error("SchemaVersion"), TRUE, <<>>, <<>>),
              keys |-> keys]
        ELSE IF version <= 0
        THEN [res |-> Result("ok", Error("schema version must be at least version 1"),
                             TRUE, <<>>, <<>>),
              keys |-> keys]
        ELSE IF ChangeKeyPrompts(in) /\ in.promptErr
        THEN [res |-> Result("ok", Error("terminal"), TRUE, <<>>, <<>>),
              keys |-> keys]
        ELSE IF ChangeKeyPolicyError(key) # NoError
        THEN [res |-> Result("ok", ChangeKeyPolicyError(key), TRUE, <<>>, <<>>),
              keys |-> keys]
        ELSE [res |-> Result("ok", change.err, TRUE, <<call>>, <<>>),
              keys |-> change.keys]

StorageSchemaEncryptionChangeKeyRunE ==
    /\ phase = "loaded"
    /\ \E in \in ChangeKeyInputs :
          LET r == SchemaEncryptionChangeKeyRun(in, schemaVersion, rowKey)
          IN  /\ Return("encryption change-key", in, r.res)
              /\ rowKey' = r.keys
              /\ UNCHANGED <<schemaVersion, identifiers, totp, devices>>

(***************************************************************************)
(* NewStorageMigrationRunE: migrate up and migrate down.                   *)
(***************************************************************************)
\* storage.SchemaLatest: the target that stands for the latest version.
SchemaLatest == 2147483647

\* The migrations from version `from` towards `target`, in execution order,
\* each named by the version it leaves the schema at.
RECURSIVE MigrationsUp(_, _)
MigrationsUp(from, target) ==
    IF from >= target THEN <<>>
    ELSE <<from + 1>> \o MigrationsUp(from + 1, target)

RECURSIVE MigrationsDown(_, _)
MigrationsDown(from, target) ==
    IF from <= target THEN <<>>
    ELSE <<from - 1>> \o MigrationsDown(from - 1, target)

\* The version a failed run has put back to where it started.
MigratedVersionRolledBack(version, plan, done) ==
    IF done < Len(plan) THEN version ELSE plan[done]

\* The version the schema is at after the first `done` steps of the plan.
MigratedVersion(version, plan, done) ==
    IF done = 0 THEN version ELSE plan[done]

\* storage.ErrNoAvailableMigrations and ErrMigrateCurrentVersionSameAsTarget.
ErrNoAvailableMigrations == Error("no migrations available")

ErrMigrateCurrentVersionSameAsTarget ==
    Error("current version is same as migration target")

\* StorageProvider.SchemaMigrate: the plan is applied step by step; the
\* step numbered `fault` fails and the schema stays at the version reached.
\* applied: the migrations that were applied, in order.
SchemaMigrate(version, up, target, fault) ==
    LET goal == IF up /\ target = SchemaLatest THEN MaxVersion ELSE target
        plan == IF up THEN MigrationsUp(version, goal)
                ELSE MigrationsDown(version, goal)
        done == IF fault \in 1..Len(plan) THEN fault - 1 ELSE Len(plan)
    IN  IF version = -1
        THEN [err |-> Error("unknown schema state"), version |-> version,
              applied |-> <<>>]
        ELSE IF goal > MaxVersion \/ goal < 0
        THEN [err |-> Error("target version is not a known version"),
              version |-> version, applied |-> <<>>]
        ELSE IF goal = version
        THEN [err |-> ErrMigrateCurrentVersionSameAsTarget, version |-> version,
              applied |-> <<>>]
        ELSE IF Len(plan) = 0
        THEN [err |-> ErrNoAvailableMigrations, version |-> version,
              applied |-> <<>>]
        ELSE [err |-> IF done < Len(plan) THEN Error("migration step failed")
                      ELSE NoError,
              version |-> MigratedVersion(version, plan, done),
              applied |-> SubSeq(plan, 1, done)]

\* StorageProvider.SchemaMigrationsUp and SchemaMigrationsDown: the
\* migrations pending from the current version; target 0 of the up list
\* stands for the latest version.
SchemaMigrationsUp(version, target) ==
    LET goal == IF target = 0 THEN MaxVersion ELSE target
    IN  IF version = -1
        THEN [err |-> Error("unknown schema state"), migrations |-> <<>>]
        ELSE IF version >= goal
        THEN [err |-> ErrNoAvailableMigrations, migrations |-> <<>>]
        ELSE [err |-> NoError, migrations |-> MigrationsUp(version, goal)]

SchemaMigrationsDown(version, target) ==
    IF version = -1
    THEN [err |-> Error("unknown schema state"), migrations |-> <<>>]
    ELSE IF version = target
    THEN [err |-> ErrMigrateCurrentVersionSameAsTarget, migrations |-> <<>>]
    ELSE IF version < target
    THEN [err |-> ErrNoAvailableMigrations, migrations |-> <<>>]
    ELSE [err |-> NoError, migrations |-> MigrationsDown(version, target)]

\* up: which of the two commands; changed, target: the --target flag;
\* confirm: what termReadConfirmation returns for DESTROY: "confirmed",
\* "declined" or "error"; fault: the migration step that fails.
MigrationInputs ==
    [up : BOOLEAN, changed : {TRUE}, target : 0..MaxVersion,
     confirm : {"confirmed"}, fault : 0..MaxFault]
    \cup
    [up : {FALSE}, changed : {TRUE}, target : 0..MaxVersion,
     confirm : {"declined", "error"}, fault : {0}]
    \cup
    [up : BOOLEAN, changed : {FALSE}, target : {0},
     confirm : {"confirmed"}, fault : 0..MaxFault]
    \cup
    [up : {TRUE}, changed : BOOLEAN, target : 0..MaxVersion,
     confirm : {"declined", "error"}, fault : {0}]

\* The confirmation asked for, its answer ignored.
MigrationDownErrorUnconfirmed(in) ==
    IF ~in.changed THEN Error("you must set a target version")
    ELSE IF in.confirm = "error" THEN Error("terminal")
    ELSE NoError

\* Lines 620-632: what stops a down migration before the backend is called.
MigrationDownError(in) ==
    IF ~in.changed THEN Error("you must set a target version")
    ELSE IF in.confirm = "error" THEN Error("terminal")
    ELSE IF in.confirm # "confirmed"
    THEN Error("cancelling down migration due to user not accepting data destruction")
    ELSE NoError

\* The target flag not looked at.
MigrationUpTargetLatest(in) == SchemaLatest

\* The confirmation asked for whatever the direction.
MigrationAsksAlways(in) == TRUE

\* Lines 611-620: only the down migration asks for its target and for the
\* confirmation.
MigrationAsks(in) == ~in.up

\* Lines 613-618: the target of an up migration.
MigrationUpTarget(in) == IF in.changed THEN in.target ELSE SchemaLatest

\* out: the migrations the backend applied during the call.
StorageMigrationRun(in, version) ==
    LET target == IF in.up THEN MigrationUpTarget(in) ELSE in.target
        m == SchemaMigrate(version, in.up, target, in.fault)
        call == Call("SchemaMigrate", <<in.up, target>>, m.err = NoError)
    IN  \* line 603: defer Close
        IF MigrationAsks(in) /\ MigrationDownError(in) # NoError
        THEN [res |-> Result("none", MigrationDownError(in), TRUE, <<>>, <<>>),
              version |-> version]
        ELSE [res |-> Result("none", m.err, TRUE, <<call>>, m.applied),
              version |-> m.version]

NewStorageMigrationRunE ==
    /\ phase = "loaded"
    /\ \E in \in MigrationInputs :
          LET r == StorageMigrationRun(in, schemaVersion)
          IN  /\ Return(IF in.up THEN "migrate up" ELSE "migrate down", in, r.res)
              /\ schemaVersion' = r.version
              /\ UNCHANGED <<rowKey, identifiers, totp, devices>>

(***************************************************************************)
(* NewStorageMigrateListRunE: migrate list-up and migrate list-down.       *)
(***************************************************************************)
\* up: which of the two commands.
MigrateListInputs == [up : BOOLEAN]

\* The list asked of the other direction.
MigrateListLoadSwapped(in, version) ==
    IF in.up THEN SchemaMigrationsDown(version, 0)
    ELSE SchemaMigrationsUp(version, 0)

\* Lines 570-576: the list asked of the backend.
MigrateListLoad(in, version) ==
    IF in.up THEN SchemaMigrationsUp(version, 0)
    ELSE SchemaMigrationsDown(version, 0)

\* Lines 578-580: the two errors the listing does not return.
MigrateListError(err) ==
    IF err # NoError /\ err # ErrNoAvailableMigrations
                     /\ err # ErrMigrateCurrentVersionSameAsTarget
    THEN err
    ELSE NoError

\* out: the direction in the title and the versions of the lines printed;
\* no version stands for "No Migrations Available".
StorageMigrateList(in, version) ==
    LET l == MigrateListLoad(in, version)
        call == Call(IF in.up THEN "SchemaMigrationsUp" ELSE "SchemaMigrationsDown",
                     0, l.err = NoError)
    IN  \* line 566: defer Close
        IF MigrateListError(l.err) # NoError
        THEN Result("none", MigrateListError(l.err), TRUE, <<call>>, <<>>)
        ELSE Result("none", NoError, TRUE, <<call>>,
                    [direction |-> IF in.up THEN "Up" ELSE "Down",
                     migrations |-> l.migrations])

NewStorageMigrateListRunE ==
    /\ phase = "loaded"
    /\ \E in \in MigrateListInputs :
          /\ Return(IF in.up THEN "migrate list-up" ELSE "migrate list-down", in,
                    StorageMigrateList(in, schemaVersion))
          /\ UNCHANGED backend

(***************************************************************************)
(* StorageWebauthnDeleteRunE.                                              *)
(***************************************************************************)
Device(id, kid, username, description) ==
    [id |-> id, kid |-> kid, username |-> username, description |-> description]

\* The devices registered before the commands run.
InitialDevices ==
    { Device(1, "kid-1", "john", "yubikey"),
      Device(2, "kid-2", "john", "phone") }

\* StorageProvider.DeleteWebauthnDevice: by the credential key identifier.
DeleteWebauthnDevice(rows, kid) == {d \in rows : d.kid # kid}

\* StorageProvider.DeleteWebauthnDeviceByUsername: the user's device of that
\* description, every device of the user when the description is blank.
DeleteWebauthnDeviceByUsername(rows, username, description) ==
    {d \in rows : ~(/\ d.username = username
                    /\ (description = "" \/ d.description = description))}

\* What storageWebauthnDeleteRunEOptsFromFlags returns, and fault: the
\* delete call fails.
WebauthnDeleteInputs ==
    [all : {FALSE}, byKID : {TRUE}, description : {""}, kid : {"kid-1", "kid-9"},
     user : {""}, optsErr : {FALSE}, fault : BOOLEAN]
    \cup
    [all : {FALSE}, byKID : {FALSE}, description : {"phone"}, kid : {""},
     user : {"john"}, optsErr : {FALSE}, fault : BOOLEAN]
    \cup
    [all : {TRUE}, byKID : {FALSE}, description : {""}, kid : {""},
     user : {"john"}, optsErr : BOOLEAN, fault : BOOLEAN]

WebauthnDelete(in, version, rows) ==
    LET call == IF in.byKID
                THEN Call("DeleteWebauthnDevice", in.kid, ~in.fault)
                ELSE Call("DeleteWebauthnDeviceByUsername",
                          <<in.user, in.description>>, ~in.fault)
        after == IF in.byKID THEN DeleteWebauthnDevice(rows, in.kid)
                 ELSE DeleteWebauthnDeviceByUsername(rows, in.user, in.description)
    IN  \* line 317: defer Close
        IF CheckSchemaVersion(version) # NoError
        THEN [res |-> Result("fail", storageWrapCheckSchemaErr(CheckSchemaVersion(version)),
                             TRUE, <<>>, <<>>),
              rows |-> rows]
        ELSE IF in.optsErr
        THEN [res |-> Result("ok", Error("flags"), TRUE, <<>>, <<>>), rows |-> rows]
        ELSE IF in.fault
        THEN [res |-> Result("ok", Wrap("failed to delete", Error(call.op)), TRUE,
                             <<call>>, <<>>),
              rows |-> rows]
        ELSE [res |-> Result("ok", NoError, TRUE, <<call>>, <<>>), rows |-> after]

StorageWebauthnDeleteRunE ==
    /\ phase = "loaded"
    /\ \E in \in WebauthnDeleteInputs :
          LET r == WebauthnDelete(in, schemaVersion, devices)
          IN  /\ Return("webauthn delete", in, r.res)
              /\ devices' = r.rows
              /\ UNCHANGED <<schemaVersion, rowKey, identifiers, totp>>

(***************************************************************************)
(* StorageTOTPGenerateRunE and StorageTOTPDeleteRunE.                      *)
(***************************************************************************)
\* totp.GenerateCustom: the configuration with the secret given, or with a
\* generated one.
GenerateCustom(username, secret) ==
    [secret |-> IF secret = "" THEN "generated" ELSE secret]

\* StorageProvider.LoadTOTPConfiguration: the error of the lookup.
LoadTOTPConfigurationError(configs, username, fault) ==
    IF fault THEN Error("LoadTOTPConfiguration")
    ELSE IF configs[username] = NoConfig THEN Error("no TOTP configuration")
    ELSE NoError

ErrNoTOTPConfiguration == Error("no TOTP configuration")

\* StorageProvider.SaveTOTPConfiguration and DeleteTOTPConfiguration.
SaveTOTPConfiguration(configs, username, c) == [configs EXCEPT ![username] = c]

DeleteTOTPConfiguration(configs, username) ==
    [configs EXCEPT ![username] = NoConfig]

\* What storageTOTPGenerateRunEOptsFromFlags returns (force, filename,
\* secret, or an error), and fault: "load" the lookup fails, "generate"
\* GenerateCustom, "exists" the image path exists, "image" creating or
\* encoding the image, "save" SaveTOTPConfiguration.
TOTPGenerateInputs(usernames) ==
    [username : usernames, optsErr : {FALSE}, force : BOOLEAN, filename : {""},
     secret : {"", "JBSWY3DP"}, fault : {"none", "load", "generate", "save"}]
    \cup
    [username : usernames, optsErr : {FALSE}, force : {TRUE}, filename : {"qr.png"},
     secret : {""}, fault : {"none", "exists", "image", "save"}]
    \cup
    [username : usernames, optsErr : {TRUE}, force : {FALSE}, filename : {""},
     secret : {""}, fault : {"none"}]

\* The lookup that does not mind a configuration already there.
TOTPGenerateLookupErrorOverwrites(in, loadErr) ==
    IF loadErr # NoError /\ loadErr # ErrNoTOTPConfiguration
    THEN loadErr
    ELSE NoError

\* Lines 383-387: the lookup decides whether the command goes on.
TOTPGenerateLookupError(in, loadErr) ==
    IF loadErr = NoError /\ ~in.force
    THEN Error("already has a TOTP configuration, use --force to overwrite")
    ELSE IF loadErr # NoError /\ loadErr # ErrNoTOTPConfiguration
    THEN loadErr
    ELSE NoError

TOTPGenerate(in, version, configs) ==
    LET loadErr == LoadTOTPConfigurationError(configs, in.username, in.fault = "load")
        c == GenerateCustom(in.username, in.secret)
        call == Call("SaveTOTPConfiguration", <<in.username, c>>, in.fault # "save")
    IN  \* line 371: defer Close
        IF CheckSchemaVersion(version) # NoError
        THEN [res |-> Result("fail", storageWrapCheckSchemaErr(CheckSchemaVersion(version)),
                             TRUE, <<>>, <<>>),
              configs |-> configs]
        ELSE IF in.optsErr
        THEN [res |-> Result("ok", Error("flags"), TRUE, <<>>, <<>>),
              configs |-> configs]
        ELSE IF TOTPGenerateLookupError(in, loadErr) # NoError
        THEN [res |-> Result("ok", TOTPGenerateLookupError(in, loadErr), TRUE,
                             <<>>, <<>>),
              configs |-> configs]
        ELSE IF in.fault = "generate"
        THEN [res |-> Result("ok", Error("GenerateCustom"), TRUE, <<>>, <<>>),
              configs |-> configs]
        ELSE IF in.filename # "" /\ in.fault = "exists"
        THEN [res |-> Result("ok", Error("image output filepath already exists"),
                             TRUE, <<>>, <<>>),
              configs |-> configs]
        ELSE IF in.filename # "" /\ in.fault = "image"
        THEN [res |-> Result("ok", Error("image"), TRUE, <<>>, <<>>),
              configs |-> configs]
        ELSE IF in.fault = "save"
        THEN [res |-> Result("ok", Error("SaveTOTPConfiguration"), TRUE,
                             <<call>>, <<>>),
              configs |-> configs]
        ELSE [res |-> Result("ok", NoError, TRUE, <<call>>, c),
              configs |-> SaveTOTPConfiguration(configs, in.username, c)]

StorageTOTPGenerateRunE(inputs) ==
    /\ phase = "loaded"
    /\ \E in \in inputs :
          LET r == TOTPGenerate(in, schemaVersion, totp)
          IN  /\ Return("totp generate", in, r.res)
              /\ totp' = r.configs
              /\ UNCHANGED <<schemaVersion, rowKey, identifiers, devices>>

\* fault: "load" the lookup fails, "delete" DeleteTOTPConfiguration fails.
TOTPDeleteInputs(usernames) ==
    [username : usernames, fault : {"none", "load", "delete"}]

\* The delete made without asking the gate.
TOTPDeleteUngated(in, version, configs) ==
    LET call == Call("DeleteTOTPConfiguration", in.username, in.fault # "delete")
    IN  IF in.fault = "delete"
        THEN [res |-> Result("none", Error("DeleteTOTPConfiguration"), TRUE,
                             <<call>>, <<>>),
              configs |-> configs]
        ELSE [res |-> Result("none", NoError, TRUE, <<call>>, <<>>),
              configs |-> DeleteTOTPConfiguration(configs, in.username)]

\* The lookup that lets a user without a configuration through.
TOTPDeleteLookupErrorNotFoundPasses(username, loadErr) ==
    IF loadErr = NoError \/ loadErr = ErrNoTOTPConfiguration THEN NoError
    ELSE Wrap("can't delete configuration for user '" \o username \o "'", loadErr)

\* Lines 438-440: any error of the lookup ends the command, the username in
\* its message.
TOTPDeleteLookupError(username, loadErr) ==
    IF loadErr = NoError THEN NoError
    ELSE Wrap("can't delete configuration for user '" \o username \o "'", loadErr)

\* out: the deletion reported (line 446).
TOTPDelete(in, version, configs) ==
    LET loadErr == LoadTOTPConfigurationError(configs, in.username, in.fault = "load")
        lookup == TOTPDeleteLookupError(in.username, loadErr)
        call == Call("DeleteTOTPConfiguration", in.username, in.fault # "delete")
    IN  \* line 432: defer Close
        IF CheckSchemaVersion(version) # NoError
        THEN [res |-> Result("fail", storageWrapCheckSchemaErr(CheckSchemaVersion(version)),
                             TRUE, <<>>, <<>>),
              configs |-> configs]
        ELSE IF lookup # NoError
        THEN [res |-> Result("ok", lookup, TRUE, <<>>, <<>>),
              configs |-> configs]
        ELSE IF in.fault = "delete"
        THEN [res |-> Result("ok", Wrap("can't delete configuration for user '"
                                            \o in.username \o "'",
                                        Error("DeleteTOTPConfiguration")),
                             TRUE, <<call>>, <<>>),
              configs |-> configs]
        ELSE [res |-> Result("ok", NoError, TRUE, <<call>>,
                             <<"Deleted TOTP configuration for user", in.username>>),
              configs |-> DeleteTOTPConfiguration(configs, in.username)]

StorageTOTPDeleteRunE(inputs) ==
    /\ phase = "loaded"
    /\ \E in \in inputs :
          LET r == TOTPDelete(in, schemaVersion, totp)
          IN  /\ Return("totp delete", in, r.res)
              /\ totp' = r.configs
              /\ UNCHANGED <<schemaVersion, rowKey, identifiers, devices>>

(***************************************************************************)
(* StorageWebauthnListAllRunE and StorageTOTPExportRunE: the paginated     *)
(* walks.  The handler asks the backend for page 0, 1, 2, ... of at most   *)
(* PageLimit rows and leaves the loop after a page shorter than that.      *)
(***************************************************************************)
\* Lines 287 and 473: limit := 10.
PageLimit == 10

\* The most rows the listed tables hold.
MaxRows == 21

\* The loop of a walk is cut after this many fetches: a walk that is still
\* going on then has not terminated (done is FALSE).
MaxFetches == MaxRows + 2

\* Rows limit*page+1 .. limit*(page+1) of the table, in the backend's order.
Page(rows, limit, page) ==
    LET from == limit * page + 1
        to == IF limit * (page + 1) < Len(rows) THEN limit * (page + 1)
              ELSE Len(rows)
    IN  IF from > to THEN <<>> ELSE SubSeq(rows, from, to)

\* StorageProvider.LoadWebauthnDevices(ctx, limit, page).
LoadWebauthnDevices(rows, limit, page) == Page(RowsOf(rows), limit, page)

\* StorageProvider.LoadTOTPConfigurations(ctx, limit, page): the users that
\* have a configuration.
TOTPRows(configs) ==
    {[username |-> u, secret |-> configs[u].secret] :
        u \in {x \in DOMAIN configs : configs[x] # NoConfig}}

LoadTOTPConfigurations(configs, limit, page) ==
    Page(RowsOf(TOTPRows(configs)), limit, page)

\* A walk: the page to ask for next, the fetches made (page asked, rows
\* returned, -1 when the fetch failed), what was written, the error that
\* ended it, and done: the loop was left.
NoWalk == [page |-> 0, fetches |-> <<>>, output |-> <<>>, err |-> NoError,
           done |-> FALSE]

Fetch(page, n) == [page |-> page, n |-> n]

\* Line 301: one line of the listing.
WebauthnListAllLine(d) == <<d.id, d.kid, d.description, d.username>>

\* The loop left after a full page too.
WalkDoneOnFull(n, limit) == n <= limit

\* Lines 304-306 and 509-511: the loop is left after a page shorter than the
\* limit.
WalkDone(n, limit) == n < limit

\* The same page asked for again.
NextPageSame(page) == page

\* Lines 291 and 475: page++.
NextPage(page) == page + 1

\* Lines 291-307: one turn of the loop of the list-all command.
WebauthnListAllPage(w, rows, in) ==
    LET devs == LoadWebauthnDevices(rows, PageLimit, w.page)
        lines == [i \in 1..Len(devs) |-> WebauthnListAllLine(devs[i])]
    IN  IF in.fault = Len(w.fetches) + 1
        THEN [w EXCEPT !.fetches = Append(@, Fetch(w.page, -1)),
                       !.err = Wrap("failed to list devices",
                                    Error("LoadWebauthnDevices")),
                       !.done = TRUE]
        ELSE IF w.page = 0 /\ Len(devs) = 0
        THEN [w EXCEPT !.fetches = Append(@, Fetch(w.page, 0)),
                       !.err = Error("no webauthn devices in database"),
                       !.done = TRUE]
        ELSE [w EXCEPT !.fetches = Append(@, Fetch(w.page, Len(devs))),
                       !.output = @ \o lines,
                       !.page = NextPage(@),
                       !.done = WalkDone(Len(devs), PageLimit)]

RECURSIVE WebauthnListAllWalk(_, _, _, _)
WebauthnListAllWalk(w, rows, in, fuel) ==
    IF w.done \/ fuel = 0 THEN w
    ELSE WebauthnListAllWalk(WebauthnListAllPage(w, rows, in), rows, in, fuel - 1)

\* fault: the number of the LoadWebauthnDevices call that fails (0: none).
WebauthnListAllInputs == [fault : 0..MaxFault]

\* Line 309: the title and the column names.
WebauthnListAllHeader == <<"ID", "KID", "Description", "Username">>

\* The rows collected so far printed however the walk ended.
WebauthnListAllPrintedAnyway(w) == <<WebauthnListAllHeader>> \o w.output

\* Lines 309-310: what is printed: the rows collected in `output`, once the
\* loop was left without a return.
WebauthnListAllPrinted(w) ==
    IF w.done /\ w.err = NoError THEN <<WebauthnListAllHeader>> \o w.output
    ELSE <<>>

\* The walk together with what was printed.
WithPrinted(w, printed) ==
    [f \in DOMAIN w \cup {"printed"} |-> IF f = "printed" THEN printed ELSE w[f]]

WebauthnListAll(in, version, rows) ==
    LET w == WebauthnListAllWalk(NoWalk, rows, in, MaxFetches)
    IN  \* line 277: defer Close
        IF CheckSchemaVersion(version) # NoError
        THEN Result("fail", storageWrapCheckSchemaErr(CheckSchemaVersion(version)),
                    TRUE, <<>>, WithPrinted(NoWalk, <<>>))
        ELSE Result("ok", w.err, TRUE, <<>>, WithPrinted(w, WebauthnListAllPrinted(w)))

StorageWebauthnListAllRunE ==
    /\ phase = "loaded"
    /\ \E in \in WebauthnListAllInputs :
          /\ Return("webauthn list-all", in,
                    WebauthnListAll(in, schemaVersion, devices))
          /\ UNCHANGED backend

\* The formats of flagsGetTOTPExportOptions.
storageTOTPExportFormatCSV == "csv"

storageTOTPExportFormatURI == "uri"

storageTOTPExportFormatPNG == "png"

\* Line 481: the header of the CSV format.
TOTPExportHeader == <<"issuer,username,algorithm,digits,period,secret">>

\* Lines 485-506: what one configuration is written as.
TOTPExportLine(format, c) == <<format, c.username, c.secret>>

\* The header written at the top of every page.
TOTPExportPageHeaderEveryPage(page, format) ==
    IF format = storageTOTPExportFormatCSV THEN <<TOTPExportHeader>> ELSE <<>>

\* Lines 480-482: the header, written in the first turn of the CSV export.
TOTPExportPageHeader(page, format) ==
    IF page = 0 /\ format = storageTOTPExportFormatCSV
    THEN <<TOTPExportHeader>> ELSE <<>>

\* Lines 475-512: one turn of the loop of the export command.  image is the
\* number of the configuration whose image cannot be made (0: none).
TOTPExportPage(w, configs, in) ==
    LET cs == LoadTOTPConfigurations(configs, PageLimit, w.page)
        header == TOTPExportPageHeader(w.page, in.format)
        \* the PNG format writes no header: one entry per configuration
        written == Len(w.output)
        bad == IF in.format = storageTOTPExportFormatPNG
                  /\ in.image > written /\ in.image <= written + Len(cs)
               THEN in.image - written ELSE 0
        upto == IF bad > 0 THEN bad - 1 ELSE Len(cs)
        lines == [i \in 1..upto |-> TOTPExportLine(in.format, cs[i])]
    IN  IF in.fault = Len(w.fetches) + 1
        THEN [w EXCEPT !.fetches = Append(@, Fetch(w.page, -1)),
                       !.err = Error("LoadTOTPConfigurations"),
                       !.done = TRUE]
        ELSE IF bad > 0
        THEN [w EXCEPT !.fetches = Append(@, Fetch(w.page, Len(cs))),
                       !.output = @ \o header \o lines,
                       !.err = Error("image"),
                       !.done = TRUE]
        ELSE [w EXCEPT !.fetches = Append(@, Fetch(w.page, Len(cs))),
                       !.output = @ \o header \o lines,
                       !.page = NextPage(@),
                       !.done = WalkDone(Len(cs), PageLimit)]

RECURSIVE TOTPExportWalk(_, _, _, _)
TOTPExportWalk(w, configs, in, fuel) ==
    IF w.done \/ fuel = 0 THEN w
    ELSE TOTPExportWalk(TOTPExportPage(w, configs, in), configs, in, fuel - 1)

\* What flagsGetTOTPExportOptions returns (the format, or an error), fault:
\* the number of the LoadTOTPConfigurations call that fails, image: the
\* number of the configuration whose image fails.
TOTPExportInputs ==
    [format : {storageTOTPExportFormatCSV, storageTOTPExportFormatURI,
               storageTOTPExportFormatPNG},
     optsErr : {FALSE}, fault : 0..MaxFault, image : {0}]
    \cup
    [format : {storageTOTPExportFormatPNG}, optsErr : {FALSE}, fault : {0},
     image : {1, PageLimit + 1}]
    \cup
    [format : {storageTOTPExportFormatCSV}, optsErr : {TRUE}, fault : {0},
     image : {0}]

TOTPExport(in, version, configs) ==
    LET w == TOTPExportWalk(NoWalk, configs, in, MaxFetches)
    IN  \* line 461: defer Close
        IF CheckSchemaVersion(version) # NoError
        THEN Result("fail", storageWrapCheckSchemaErr(CheckSchemaVersion(version)),
                    TRUE, <<>>, NoWalk)
        ELSE IF in.optsErr
        THEN Result("ok", Error("flags"), TRUE, <<>>, NoWalk)
        ELSE Result("ok", w.err, TRUE, <<>>, w)

StorageTOTPExportRunE ==
    /\ phase = "loaded"
    /\ \E in \in TOTPExportInputs :
          /\ Return("totp export", in, TOTPExport(in, schemaVersion, totp))
          /\ UNCHANGED backend

(***************************************************************************)
(* StorageSchemaEncryptionCheckRunE.  The key checked is the key of the    *)
(* configuration the provider was built with: an input of the command.     *)
(***************************************************************************)
\* storage.ErrSchemaEncryptionVersionUnsupported and
\* storage.ErrSchemaEncryptionInvalidKey.
ErrSchemaEncryptionVersionUnsupported ==
    Error("schema version doesn't support encryption")

ErrSchemaEncryptionInvalidKey == Error("the configured encryption key is invalid")

\* The rows of each encrypted table.
EncryptedRows(configs, rows) ==
    [t \in EncryptedTables |->
        IF t = "totp_configurations" THEN Cardinality(TOTPRows(configs))
        ELSE Cardinality(rows)]

\* The rows the validation scans in a table: its designated sample, and in
\* verbose mode every row as well.
EncryptionScanned(count, verbose) == IF verbose THEN 1 + count ELSE 1

\* storage.EncryptionValidationResult of SchemaEncryptionCheckKey: for each
\* table the rows scanned and those that do not decrypt under the key.
EncryptionValidationResult(keys, key, verbose, counts) ==
    [t \in DOMAIN keys |->
        [invalid |-> IF keys[t] = key THEN 0
                     ELSE EncryptionScanned(counts[t], verbose),
         total |-> EncryptionScanned(counts[t], verbose)]]

\* EncryptionValidationResult.Success.
Success(result) == \A t \in DOMAIN result : result[t].invalid = 0

\* key: the configured key; verbose, optsErr: the --verbose flag; fault:
\* the error of SchemaEncryptionCheckKey.
EncryptionCheckKeys == (NewKeys \ {"", "nineteen-characters"}) \cup {InitialKey}

EncryptionCheckInputs ==
    [key : EncryptionCheckKeys, verbose : BOOLEAN, optsErr : {FALSE},
     fault : {"none", "unsupported", "other"}]
    \cup
    [key : {InitialKey}, verbose : {FALSE}, optsErr : {TRUE}, fault : {"none"}]

\* The error SchemaEncryptionCheckKey returns.
EncryptionCheckFault(fault) ==
    IF fault = "unsupported" THEN ErrSchemaEncryptionVersionUnsupported
    ELSE IF fault = "none" THEN NoError
    ELSE Error("SchemaEncryptionCheckKey")

\* The verdict printed whatever the result says.
EncryptionCheckVerdictIgnoresResult(err, result) ==
    IF err = ErrSchemaEncryptionVersionUnsupported THEN "FAILURE"
    ELSE IF err # NoError THEN "UNKNOWN"
    ELSE "SUCCESS"

\* Lines 148-160: the verdict printed.
EncryptionCheckVerdict(err, result) ==
    IF err = ErrSchemaEncryptionVersionUnsupported THEN "FAILURE"
    ELSE IF err # NoError THEN "UNKNOWN"
    ELSE IF Success(result) THEN "SUCCESS"
    ELSE "FAILURE"

\* Lines 149-159: the cause printed with the verdict.
EncryptionCheckCause(err, result) ==
    IF err # NoError THEN err
    ELSE IF Success(result) THEN NoError
    ELSE ErrSchemaEncryptionInvalidKey

\* Line 171: the table names sorted.
EncryptionCheckTableOrder == <<"totp_configurations", "webauthn_devices">>

\* Lines 162-180: the lines of the tables, printed in verbose mode.
EncryptionCheckTables(err, result, verbose) ==
    IF err = NoError /\ verbose
    THEN [i \in 1..Len(EncryptionCheckTableOrder) |->
            [name |-> EncryptionCheckTableOrder[i],
             invalid |-> result[EncryptionCheckTableOrder[i]].invalid,
             total |-> result[EncryptionCheckTableOrder[i]].total]]
    ELSE <<>>

\* The keys of the rows after the calls of a command: each successful
\* SchemaEncryptionChangeKey among them has put the rows under its key.
RECURSIVE KeysAfter(_, _)
KeysAfter(calls, keys) ==
    IF calls = <<>> THEN keys
    ELSE KeysAfter(Tail(calls),
                   IF Head(calls).op = "SchemaEncryptionChangeKey" /\ Head(calls).ok
                   THEN SchemaEncryptionChangeKey(keys, Head(calls).arg, 0).keys
                   ELSE keys)

\* The check that puts the rows under the key it was asked to check.
SchemaEncryptionCheckRotates(in, version, keys, configs, rows) ==
    Result(IF CheckSchemaVersion(version) = NoError THEN "ok" ELSE "fail",
           NoError, TRUE,
           <<Call("SchemaEncryptionChangeKey", in.key, TRUE),
             Call("SchemaEncryptionCheckKey", in.verbose, TRUE)>>,
           [verdict |-> "SUCCESS", cause |-> NoError, tables |-> <<>>])

\* The command returns nil whatever the verdict.
SchemaEncryptionCheck(in, version, keys, configs, rows) ==
    LET err == EncryptionCheckFault(in.fault)
        result == EncryptionValidationResult(keys, in.key, in.verbose,
                                             EncryptedRows(configs, rows))
        call == Call("SchemaEncryptionCheckKey", in.verbose, err = NoError)
    IN  \* line 136: defer Close
        IF CheckSchemaVersion(version) # NoError
        THEN Result("fail", storageWrapCheckSchemaErr(CheckSchemaVersion(version)),
                    TRUE, <<>>, <<>>)
        ELSE IF in.optsErr
        THEN Result("ok", Error("flags"), TRUE, <<>>, <<>>)
        ELSE Result("ok", NoError, TRUE, <<call>>,
                    [verdict |-> EncryptionCheckVerdict(err, result),
                     cause |-> EncryptionCheckCause(err, result),
                     tables |-> EncryptionCheckTables(err, result, in.verbose)])

StorageSchemaEncryptionCheckRunE ==
    /\ phase = "loaded"
    /\ \E in \in EncryptionCheckInputs :
          LET r == SchemaEncryptionCheck(in, schemaVersion, rowKey, totp, devices)
          IN  /\ Return("encryption check", in, r)
              /\ rowKey' = KeysAfter(r.calls, rowKey)
              /\ UNCHANGED <<schemaVersion, identifiers, totp, devices>>

(***************************************************************************)
(* StorageSchemaInfoRunE and StorageMigrateHistoryRunE.                    *)
(***************************************************************************)
\* StorageProvider.SchemaTables: the tables of the schema, none before the
\* schema is created.
SchemaTables(version) ==
    IF version <= 0 THEN <<>> ELSE <<"totp_configurations", "webauthn_devices">>

\* key: the configured key; fault: the backend call that fails, "unsupported"
\* for SchemaEncryptionCheckKey answering that the version has no encryption.
SchemaInfoInputs ==
    [key : EncryptionCheckKeys,
     fault : {"none", "version", "tables", "latest", "check", "unsupported"}]

\* Line 652: the error of SchemaVersion.
SchemaInfoVersionError(version, fault) ==
    IF fault = "version" THEN Error("SchemaVersion")
    ELSE IF version = -1 THEN Error("unknown schema state")
    ELSE NoError

\* Lines 681-692: what is printed of the encryption key.
SchemaInfoEncryption(err, result) ==
    IF err = ErrSchemaEncryptionVersionUnsupported THEN "unsupported (schema version)"
    ELSE IF err # NoError THEN "invalid"
    ELSE IF ~Success(result) THEN "invalid"
    ELSE "valid"

SchemaInfo(in, version, keys, configs, rows) ==
    LET verr == SchemaInfoVersionError(version, in.fault)
        cerr == IF in.fault = "check" THEN Error("SchemaEncryptionCheckKey")
                ELSE IF in.fault = "unsupported"
                THEN ErrSchemaEncryptionVersionUnsupported
                ELSE NoError
        result == EncryptionValidationResult(keys, in.key, FALSE,
                                             EncryptedRows(configs, rows))
        c1 == Call("SchemaVersion", <<>>, verr = NoError)
        c2 == Call("SchemaTables", <<>>, in.fault # "tables")
        c3 == Call("SchemaLatestVersion", <<>>, in.fault # "latest")
        c4 == Call("SchemaEncryptionCheckKey", FALSE, cerr = NoError)
    IN  \* line 648: defer Close
        IF verr # NoError /\ verr # Error("unknown schema state")
        THEN Result("none", verr, TRUE, <<c1>>, <<>>)
        ELSE IF in.fault = "tables"
        THEN Result("none", Error("SchemaTables"), TRUE, <<c1, c2>>, <<>>)
        ELSE IF in.fault = "latest"
        THEN Result("none", Error("SchemaLatestVersion"), TRUE, <<c1, c2, c3>>, <<>>)
        ELSE Result("none", NoError, TRUE, <<c1, c2, c3, c4>>,
                    [version |-> version,
                     upgrade |-> IF MaxVersion > version THEN MaxVersion ELSE 0,
                     tables |-> SchemaTables(version),
                     encryption |-> SchemaInfoEncryption(cerr, result)])

StorageSchemaInfoRunE ==
    /\ phase = "loaded"
    /\ \E in \in SchemaInfoInputs :
          /\ Return("schema info", in,
                    SchemaInfo(in, schemaVersion, rowKey, totp, devices))
          /\ UNCHANGED backend

\* StorageProvider.SchemaMigrationHistory of a schema that was migrated
\* straight up to its version: one record for each step.
SchemaMigrationHistory(version) ==
    [i \in 1..version |-> [id |-> i, before |-> i - 1, after |-> i]]

\* fault: "version" SchemaVersion fails, "history" SchemaMigrationHistory
\* fails, "empty" it returns no record.
MigrateHistoryInputs == [fault : {"none", "version", "history", "empty"}]

MigrateHistory(in, version) ==
    LET c1 == Call("SchemaVersion", <<>>, in.fault # "version" /\ version # -1)
        c2 == Call("SchemaMigrationHistory", <<>>, in.fault # "history")
    IN  \* line 528: defer Close
        IF in.fault = "version" \/ version = -1
        THEN Result("none", Error("SchemaVersion"), TRUE, <<c1>>, <<>>)
        ELSE IF version <= 0
        THEN Result("none", NoError, TRUE, <<c1>>, <<>>)
        ELSE IF in.fault = "history"
        THEN Result("none", Error("SchemaMigrationHistory"), TRUE, <<c1, c2>>, <<>>)
        ELSE IF in.fault = "empty"
        THEN Result("none", Error("no migration history found which may indicate a broken schema"),
                    TRUE, <<c1, c2>>, <<>>)
        ELSE Result("none", NoError, TRUE, <<c1, c2>>, SchemaMigrationHistory(version))

StorageMigrateHistoryRunE ==
    /\ phase = "loaded"
    /\ \E in \in MigrateHistoryInputs :
          /\ Return("migrate history", in, MigrateHistory(in, schemaVersion))
          /\ UNCHANGED backend

(***************************************************************************)
(* StorageWebauthnListRunE: the devices of one user.                       *)
(***************************************************************************)
ErrNoWebauthnDevice == Error("no webauthn device found")

\* What LoadWebauthnDevicesByUsername returns.  fault "notfound": the
\* not-found error; "error": another error and no device, as a Go function
\* returns on failure; "partial": another error together with the devices
\* read before it.
LoadWebauthnDevicesByUsername(rows, username, fault) ==
    LET found == SelectSeq(RowsOf(rows), LAMBDA d : d.username = username)
    IN  IF fault = "notfound" THEN [devices |-> <<>>, err |-> ErrNoWebauthnDevice]
        ELSE IF fault = "error"
        THEN [devices |-> <<>>, err |-> Error("LoadWebauthnDevicesByUsername")]
        ELSE IF fault = "partial"
        THEN [devices |-> found, err |-> Error("LoadWebauthnDevicesByUsername")]
        ELSE [devices |-> found, err |-> NoError]

WebauthnListInputs ==
    [user : {"john", "mary"}, fault : {"none", "notfound", "error", "partial"}]

\* Lines 258-263: the error the command returns.
WebauthnListError(user, found, err) ==
    IF Len(found) = 0 \/ (err # NoError /\ err = ErrNoWebauthnDevice)
    THEN Error("user '" \o user \o "' has no webauthn devices")
    ELSE IF err # NoError
    THEN Wrap("can't list devices for user '" \o user \o "'", err)
    ELSE NoError

\* Line 268: the line of a device.
WebauthnListLine(d) == <<d.id, d.kid, d.description>>

WebauthnList(in, version, rows) ==
    LET l == LoadWebauthnDevicesByUsername(rows, in.user, in.fault)
        call == Call("LoadWebauthnDevicesByUsername", in.user, l.err = NoError)
        err == WebauthnListError(in.user, l.devices, l.err)
    IN  \* line 244: defer Close
        IF CheckSchemaVersion(version) # NoError
        THEN Result("fail", storageWrapCheckSchemaErr(CheckSchemaVersion(version)),
                    TRUE, <<>>, <<>>)
        ELSE IF err # NoError
        THEN Result("ok", err, TRUE, <<call>>, <<>>)
        ELSE Result("ok", NoError, TRUE, <<call>>,
                    [i \in 1..Len(l.devices) |-> WebauthnListLine(l.devices[i])])

StorageWebauthnListRunE ==
    /\ phase = "loaded"
    /\ \E in \in WebauthnListInputs :
          /\ Return("webauthn list", in, WebauthnList(in, schemaVersion, devices))
          /\ UNCHANGED backend

(***************************************************************************)
(* The specification.                                                      *)
(***************************************************************************)
Init ==
    /\ phase = "idle"
    /\ sessions = NoSessions
    /\ provider = "none"
    /\ last = NoInvocation
    /\ schemaVersion \in -1..MaxVersion
    /\ rowKey = [t \in EncryptedTables |-> InitialKey]
    /\ identifiers = {}
    /\ totp = [u \in Usernames |-> NoConfig]
    /\ devices = InitialDevices

\* The inputs each command is run over.
AddInputs == AddInputsOver({"", "saml", "bogus"}, {""}, {"john"}, IdentifierFlags)

GenerateInputs ==
    GenerateFlags({<<>>, <<"john">>}, {<<"openid">>, <<"saml", "bogus">>}, {<<>>})
    \cup GenerateFaults({<<"john">>}, {<<"openid">>}, {<<>>})

ImportFiles ==
    ImportInputs({Marshal(<<>>),
                  Marshal(<<Row("openid", "", "john", "A4"),
                            Row("saml", "", "john", "E4")>>)})

TOTPGenerateFlags == TOTPGenerateInputs({"john"})

TOTPDeleteFlags == TOTPDeleteInputs({"john"})

Next ==
    \/ LoadProvidersStorageRunE
    \/ Exit
    \/ StorageUserIdentifiersAddRunE(AddInputs)
    \/ StorageUserIdentifiersGenerateRunE(GenerateInputs)
    \/ StorageUserIdentifiersExportRunE
    \/ StorageUserIdentifiersImportRunE(ImportFiles)
    \/ StorageSchemaEncryptionChangeKeyRunE
    \/ NewStorageMigrationRunE
    \/ NewStorageMigrateListRunE
    \/ StorageWebauthnDeleteRunE
    \/ StorageTOTPGenerateRunE(TOTPGenerateFlags)
    \/ StorageTOTPDeleteRunE(TOTPDeleteFlags)

\* Every command, each over a few inputs.
Spec == Init /\ [][Next]_vars

(***************************************************************************)
(* The opaque-identifier commands over every service, sector and username. *)
(***************************************************************************)
UserLists == {<<>>, <<"john">>, <<"john", "mary">>, <<"mary", "mary">>}

ServiceLists == {<<>>, <<"openid">>, <<"openid", "saml">>, <<"saml", "bogus">>}

SectorLists == {<<>>, <<"example.com">>, <<"", "example.com">>}

ImportDocuments ==
    { Marshal(<<>>),
      Marshal(<<Row("openid", "", "john", "A4")>>),
      Marshal(<<Row("saml", "example.com", "mary", "E4"),
                Row("openid", "example.com", "mary", "F4"),
                Row("saml", "example.com", "mary", "G4")>>) }

AllServices == Services \cup {""}

AddInputsAll == AddInputsOver(AllServices, Sectors, Usernames, IdentifierFlags)

GenerateInputsAll ==
    GenerateFlags(UserLists, ServiceLists, SectorLists)
    \cup GenerateFaults({<<"john", "mary">>}, {<<"openid">>}, {<<>>})

ImportFilesAll == ImportInputs(ImportDocuments)

NextIdentifiers ==
    \/ LoadProvidersStorageRunE
    \/ Exit
    \/ StorageUserIdentifiersAddRunE(AddInputsAll)
    \/ StorageUserIdentifiersGenerateRunE(GenerateInputsAll)
    \/ StorageUserIdentifiersExportRunE
    \/ StorageUserIdentifiersImportRunE(ImportFilesAll)

SpecIdentifiers == Init /\ [][NextIdentifiers]_vars

(***************************************************************************)
(* The listing commands over tables of 0 .. MaxRows rows.                  *)
(***************************************************************************)
\* The WebAuthn devices and TOTP configurations registered before the
\* commands run: user n stands for the n-th username.
DeviceRows(m) ==
    {Device(i, <<"kid", i>>, IF i % 2 = 1 THEN "john" ELSE "mary", "key") :
        i \in 1..m}

TOTPConfigurations(k) == [u \in 1..k |-> GenerateCustom(u, "")]

InitPagination ==
    /\ phase = "idle"
    /\ sessions = NoSessions
    /\ provider = "none"
    /\ last = NoInvocation
    /\ schemaVersion \in {0, MaxVersion}
    /\ rowKey = [t \in EncryptedTables |-> InitialKey]
    /\ identifiers = {}
    /\ \E k \in 0..MaxRows : totp = TOTPConfigurations(k)
    /\ \E m \in 0..MaxRows : devices = DeviceRows(m)

NextPagination ==
    \/ LoadProvidersStorageRunE
    \/ Exit
    \/ StorageWebauthnListAllRunE
    \/ StorageTOTPExportRunE

SpecPagination == InitPagination /\ [][NextPagination]_vars

(***************************************************************************)
(* The commands that only read, over stores of several contents, with the  *)
(* key rotation that puts the rows under another key.                      *)
(***************************************************************************)
ReadOnlyIdentifiers ==
    { {},
      {Row("openid", "", "john", "A4"), Row("saml", "example.com", "mary", "E4")} }

ReadOnlyConfigurations ==
    { [u \in Usernames |-> NoConfig],
      [u \in Usernames |-> IF u = "john" THEN GenerateCustom(u, "") ELSE NoConfig],
      [u \in Usernames |-> GenerateCustom(u, "JBSWY3DP")] }

ReadOnlyDevices == { {}, InitialDevices }

InitReadOnly ==
    /\ phase = "idle"
    /\ sessions = NoSessions
    /\ provider = "none"
    /\ last = NoInvocation
    /\ schemaVersion \in -1..MaxVersion
    /\ rowKey = [t \in EncryptedTables |-> InitialKey]
    /\ identifiers \in ReadOnlyIdentifiers
    /\ totp \in ReadOnlyConfigurations
    /\ devices \in ReadOnlyDevices

NextReadOnly ==
    \/ LoadProvidersStorageRunE
    \/ Exit
    \/ StorageSchemaEncryptionChangeKeyRunE
    \/ StorageSchemaEncryptionCheckRunE
    \/ StorageSchemaInfoRunE
    \/ StorageMigrateHistoryRunE
    \/ NewStorageMigrateListRunE
    \/ StorageWebauthnListRunE
    \/ StorageWebauthnListAllRunE
    \/ StorageTOTPExportRunE
    \/ StorageUserIdentifiersExportRunE

SpecReadOnly == InitReadOnly /\ [][NextReadOnly]_vars

(***************************************************************************)
(* Two totp generate invocations side by side.  Each is a process of its   *)
(* own with its own provider; between two backend calls of one, the other  *)
(* may make its calls.  An invocation is followed call by call: its gate   *)
(* and flags, its lookup (lines 383-387), its save (line 419).             *)
(***************************************************************************)
SessionIds == {1, 2}

NoSession == [pc |-> "start", in |-> <<>>, err |-> NoError, saved |-> FALSE]

\* The flags of the invocations: no image is asked for.
SessionFlags == {in \in TOTPGenerateInputs({"john"}) : in.filename = ""}

Ended(s, in, err) == [pc |-> "done", in |-> in, err |-> err, saved |-> FALSE]

\* Lines 375-381: the gate and the flags.
TOTPGenerateBegin(p) ==
    /\ sessions[p].pc = "start"
    /\ \E in \in SessionFlags :
          sessions' = [sessions EXCEPT ![p] =
              IF CheckSchemaVersion(schemaVersion) # NoError
              THEN Ended(@, in, storageWrapCheckSchemaErr(CheckSchemaVersion(schemaVersion)))
              ELSE IF in.optsErr THEN Ended(@, in, Error("flags"))
              ELSE [@ EXCEPT !.pc = "lookup", !.in = in]]
    /\ UNCHANGED <<phase, provider, last, backend>>

\* Lines 383-393: LoadTOTPConfiguration and what follows from its answer,
\* then GenerateCustom.
TOTPGenerateLookup(p) ==
    /\ sessions[p].pc = "lookup"
    /\ LET in == sessions[p].in
           loadErr == LoadTOTPConfigurationError(totp, in.username, in.fault = "load")
           err == TOTPGenerateLookupError(in, loadErr)
       IN  sessions' = [sessions EXCEPT ![p] =
              IF err # NoError THEN Ended(@, in, err)
              ELSE IF in.fault = "generate" THEN Ended(@, in, Error("GenerateCustom"))
              ELSE [@ EXCEPT !.pc = "save"]]
    /\ UNCHANGED <<phase, provider, last, backend>>

\* Lines 419-425: SaveTOTPConfiguration.
TOTPGenerateSave(p) ==
    /\ sessions[p].pc = "save"
    /\ LET in == sessions[p].in
       IN  IF in.fault = "save"
           THEN /\ sessions' = [sessions EXCEPT ![p] =
                                   Ended(@, in, Error("SaveTOTPConfiguration"))]
                /\ totp' = totp
           ELSE /\ sessions' = [sessions EXCEPT ![p] =
                                   [pc |-> "done", in |-> in, err |-> NoError,
                                    saved |-> TRUE]]
                /\ totp' = SaveTOTPConfiguration(totp, in.username,
                                                 GenerateCustom(in.username, in.secret))
    /\ UNCHANGED <<phase, provider, last, schemaVersion, rowKey, identifiers, devices>>

InitConcurrent ==
    /\ phase = "idle"
    /\ provider = "none"
    /\ last = NoInvocation
    /\ schemaVersion \in -1..MaxVersion
    /\ rowKey = [t \in EncryptedTables |-> InitialKey]
    /\ identifiers = {}
    /\ totp \in ReadOnlyConfigurations
    /\ devices = InitialDevices
    /\ sessions = [p \in SessionIds |-> NoSession]

NextConcurrent ==
    \/ \E p \in SessionIds : TOTPGenerateBegin(p)
    \/ \E p \in SessionIds : TOTPGenerateLookup(p)
    \/ \E p \in SessionIds : TOTPGenerateSave(p)

SpecConcurrent == InitConcurrent /\ [][NextConcurrent]_vars

(***************************************************************************)
(* The claims.                                                             *)
(***************************************************************************)
MutatingOperations ==
    {"DeleteWebauthnDevice", "DeleteWebauthnDeviceByUsername",
     "SaveTOTPConfiguration", "DeleteTOTPConfiguration",
     "SaveUserOpaqueIdentifier", "SchemaEncryptionChangeKey"}

CallsOf(ops) == {i \in 1..Len(last.calls) : last.calls[i].op \in ops}

Returned == phase = "returned" /\ last.cmd \notin {"none", "prerun"}

\* C1: a handler makes a mutating backend call (delete of a WebAuthn device,
\* save or delete of a TOTP configuration, save of an opaque identifier,
\* change of the encryption key) only after CheckSchemaVersion returned
\* success in the same invocation; when the gate fails the handler returns
\* an error, has made no such call, and the step leaves the backend as it
\* was.
C1_GateBeforeMutation ==
    /\ [](CallsOf(MutatingOperations) # {}
            => last.gate = "ok" /\ CheckSchemaVersion(schemaVersion) = NoError)
    /\ [](last.gate = "fail"
            => last.err # NoError /\ CallsOf(MutatingOperations) = {})
    /\ [][last'.gate = "fail" => UNCHANGED backend]_vars

C1_Witness ==
    /\ Returned
    /\ last.cmd = "totp delete"
    /\ last.gate = "ok"
    /\ Len(last.calls) = 1 /\ last.calls[1].ok
    /\ totp["john"] = NoConfig

\* C2: once the pre-run step has acquired the provider, the provider is
\* closed by the time the handler has returned, whatever the return path.
C2_ClosedOnEveryReturn == Returned => provider = "closed"

\* C3: migrate down calls SchemaMigrate(down, target) only if --target was
\* set and the confirmation was given; otherwise it returns an error, makes
\* no backend call and the schema version stays what it was.
C3_DownNeedsTargetAndConfirmation ==
    /\ [](last.cmd = "migrate down" /\ last.calls # <<>>
            => /\ last.in.changed /\ last.in.confirm = "confirmed"
               /\ Len(last.calls) = 1
               /\ last.calls[1].op = "SchemaMigrate"
               /\ last.calls[1].arg = <<FALSE, last.in.target>>)
    /\ [](last.cmd = "migrate down"
            /\ ~(last.in.changed /\ last.in.confirm = "confirmed")
            => last.err # NoError /\ last.calls = <<>>)
    /\ [][last'.cmd = "migrate down"
            /\ ~(last'.in.changed /\ last'.in.confirm = "confirmed")
            => schemaVersion' = schemaVersion]_vars

C3_Witness ==
    /\ last.cmd = "migrate down"
    /\ last.in.confirm = "confirmed" /\ last.in.target = 0
    /\ last.err = NoError
    /\ schemaVersion = 0

\* C4: change-key calls SchemaEncryptionChangeKey only when the gate passed,
\* the schema version is at least 1 and the new key is non-empty and at least
\* 20 characters long; when it does not make the call it returns an error and
\* the keys of the encrypted rows stay what they were.
C4_ChangeKeyPreconditions ==
    /\ [](last.cmd = "encryption change-key" /\ last.calls # <<>>
            => /\ last.gate = "ok"
               /\ schemaVersion >= 1
               /\ Len(last.calls) = 1
               /\ last.calls[1].op = "SchemaEncryptionChangeKey"
               /\ last.calls[1].arg # ""
               /\ Len(last.calls[1].arg) >= 20)
    /\ [](last.cmd = "encryption change-key" /\ last.calls = <<>>
            => last.err # NoError)
    /\ [][last'.cmd = "encryption change-key"
            /\ (last'.calls = <<>> \/ last'.err # NoError)
            => rowKey' = rowKey]_vars

C4_Witness ==
    /\ last.cmd = "encryption change-key"
    /\ last.err = NoError
    /\ \A t \in EncryptedTables : rowKey[t] = "twenty-characters-ok"

\* The product of a bulk generation, by index: tuple i (from 0) is service
\* i \div (|R||U|), sector (i \div |U|) % |R|, username i % |U|, where the
\* sectors are the single sector "" when none is given.
ClaimSectors(in) == IF in.sectors = <<>> THEN <<"">> ELSE in.sectors

ClaimProduct(in) ==
    LET R == ClaimSectors(in)
        nr == Len(R)
        nu == Len(in.users)
    IN  [i \in 1..(Len(in.services) * nr * nu) |->
            << in.services[((i - 1) \div (nr * nu)) + 1],
               R[(((i - 1) \div nu) % nr) + 1],
               in.users[((i - 1) % nu) + 1] >>]

KeysOf(store) == {NaturalKey(r) : r \in store}

NoRepeats(s) == \A i, j \in 1..Len(s) : s[i] = s[j] => i = j

\* The tuples of the product that are not in the loaded set, in order.
ClaimToSave(in, existing) ==
    SelectSeq(ClaimProduct(in), LAMBDA k : k \notin KeysOf(existing))

\* A bulk generation that got to its loops: the gate passed, the load and
\* the flags gave no error, a user was given and every service is valid.
GenerateLooped ==
    /\ Returned
    /\ last.cmd = "identifiers generate"
    /\ last.gate = "ok"
    /\ last.in.load # "error" /\ ~last.in.optsErr
    /\ Len(last.in.users) > 0
    /\ \A i \in 1..Len(last.in.services) : last.in.services[i] \in {"openid", "saml"}

\* C5: no two stored opaque identifiers share (service, sector, username),
\* after any sequence of add, generate and import commands.
C5_NaturalKeyUnique ==
    \A r, s \in identifiers : NaturalKey(r) = NaturalKey(s) => r = s

C5_Witness ==
    /\ Returned
    /\ last.cmd = "identifiers add"
    /\ last.in.fault = 0
    /\ Len(last.calls) = 1 /\ ~last.calls[1].ok
    /\ Cardinality(identifiers) >= 2
    /\ \E r \in identifiers :
          /\ NaturalKey(r) = NaturalKey(last.calls[1].arg)
          /\ r.identifier # last.calls[1].arg.identifier

\* C6: a bulk generation without faults over services S, sectors R and
\* usernames U (each without repeats) against an empty store saves exactly
\* |S| x |R| x |U| records and reports no duplicate; the same generation run
\* again on the resulting store saves nothing, reports |S| x |R| x |U|
\* duplicates and leaves the store as it is.
C6_GenerateTwice ==
    ( /\ GenerateLooped
      /\ last.in.save = 0 /\ last.in.random = 0
      /\ NoRepeats(last.in.services) /\ NoRepeats(last.in.sectors)
      /\ NoRepeats(last.in.users)
      /\ last.out.existing = {} )
    => LET n == Len(last.in.services) * Len(ClaimSectors(last.in))
                * Len(last.in.users)
           again == UserIdentifiersGenerate([last.in EXCEPT !.load = "ok"],
                                            schemaVersion, identifiers)
       IN  /\ last.err = NoError
           /\ last.out.added = n /\ last.out.duplicates = 0
           /\ Cardinality(CallsOf({"SaveUserOpaqueIdentifier"})) = n
           /\ Cardinality(identifiers) = n
           /\ again.res.err = NoError
           /\ again.res.out.added = 0 /\ again.res.out.duplicates = n
           /\ again.res.calls = <<>>
           /\ again.store = identifiers

C6_Witness ==
    /\ GenerateLooped
    /\ last.out.existing = {}
    /\ last.out.added = 8
    /\ Cardinality(identifiers) = 8

\* C7: in a bulk generation a tuple of the product is skipped and counted as
\* a duplicate exactly when its natural key is in the set loaded at the
\* start, and is otherwise saved with a fresh version 4 identifier and
\* counted as added: save calls are made only for tuples not in the loaded
\* set; when the command completes, added + duplicates is the size of the
\* product (taken over the sector "" when no sector is given), duplicates is
\* the number of tuples in the loaded set, the saves are as many as added and
\* are the added records; and the command fails only when a save or the
\* generation of an identifier fails, never for duplicates alone.
C7_GenerateCounts ==
    GenerateLooped
    => LET P == ClaimProduct(last.in)
           E == last.out.existing
           dups == {i \in 1..Len(P) : P[i] \in KeysOf(E)}
           saved == {last.calls[i].arg : i \in 1..Len(last.calls)}
       IN  /\ \A c \in saved :
                 /\ NaturalKey(c) \notin KeysOf(E)
                 /\ c.identifier.version = 4
                 /\ \A e \in E : e.identifier # c.identifier
           /\ last.err = NoError =>
                 /\ last.out.added + last.out.duplicates = Len(P)
                 /\ last.out.duplicates = Cardinality(dups)
                 /\ Len(last.calls) = last.out.added
                 /\ \A i \in 1..Len(last.calls) : last.calls[i].ok
                 /\ KeysOf(saved) = {P[i] : i \in (1..Len(P)) \ dups}
                 /\ Cardinality(saved) = last.out.added
                 /\ identifiers = E \cup saved
           /\ last.err # NoError =>
                 \/ last.in.random > 0
                 \/ Len(last.calls) > 0 /\ ~last.calls[Len(last.calls)].ok

C7_Witness ==
    /\ GenerateLooped
    /\ last.err = NoError
    /\ last.in.sectors = <<>>
    /\ last.out.duplicates = 1
    /\ last.out.added = 3

\* C8: a bulk generation asked for a service name outside the valid set, or
\* given no username, returns an error without any save and leaves the
\* identifier store as it was, whatever else was supplied.
C8_InvalidServiceNoEffect ==
    /\ [](Returned /\ last.cmd = "identifiers generate"
            /\ (\/ Len(last.in.users) = 0
                \/ \E i \in 1..Len(last.in.services) :
                      last.in.services[i] \notin {"openid", "saml"})
            => last.err # NoError /\ last.calls = <<>>)
    /\ [][last'.cmd = "identifiers generate"
            /\ (\/ Len(last'.in.users) = 0
                \/ \E i \in 1..Len(last'.in.services) :
                      last'.in.services[i] \notin {"openid", "saml"})
            => identifiers' = identifiers]_vars

C8_Witness ==
    /\ Returned
    /\ last.cmd = "identifiers generate"
    /\ last.gate = "ok"
    /\ last.in.services = <<"saml", "bogus">>
    /\ last.in.users = <<"john", "mary">>
    /\ last.err # NoError
    /\ identifiers # {}

\* C9: the saves of a bulk generation are made in nested order (service
\* outer, sector middle, username inner) over the tuples not in the loaded
\* set; every save before the last succeeded; when a save fails the command
\* returns an error, the records saved before it are in the store and
\* nothing else was added; a command that returns no error saved them all.
C9_GenerateOrderAndStop ==
    GenerateLooped
    => LET Q == ClaimToSave(last.in, last.out.existing)
           n == Len(last.calls)
       IN  /\ n <= Len(Q)
           /\ \A i \in 1..n : NaturalKey(last.calls[i].arg) = Q[i]
           /\ \A i \in 1..(n - 1) : last.calls[i].ok
           /\ (n > 0 /\ ~last.calls[n].ok) =>
                 /\ last.err # NoError
                 /\ identifiers = last.out.existing
                        \cup {last.calls[i].arg : i \in 1..(n - 1)}
           /\ last.err = NoError => n = Len(Q)

C9_Witness ==
    /\ GenerateLooped
    /\ last.in.save = 3
    /\ last.in.services = <<"openid", "saml">>
    /\ last.in.sectors = <<"", "example.com">>
    /\ last.in.users = <<"john", "mary">>
    /\ Len(last.calls) = 3 /\ ~last.calls[3].ok
    /\ last.out.existing # {}
    /\ last.err # NoError

\* C10: an add command given an identifier that does not parse as a UUID, or
\* parses as a UUID of a version other than 4, returns an error and makes no
\* save, whatever the service, sector and username.
C10_AddRejectsNonV4 ==
    ( /\ Returned
      /\ last.cmd = "identifiers add"
      /\ last.in.identifierChanged
      /\ (~last.in.identifier.parses \/ last.in.identifier.version # 4) )
    => last.err # NoError /\ last.calls = <<>>

C10_Witness ==
    /\ Returned
    /\ last.cmd = "identifiers add"
    /\ last.in.identifierChanged
    /\ last.in.identifier.parses /\ last.in.identifier.version = 5
    /\ last.in.service = "saml"
    /\ last.gate = "none"
    /\ last.err # NoError
    /\ identifiers # {}

\* A paginated walk that met no failure: the gate passed, the flags were
\* read and no fetch and no image failed.
WalkCommands == {"webauthn list-all", "totp export"}

Walking ==
    /\ Returned
    /\ last.cmd \in WalkCommands
    /\ last.gate = "ok"
    /\ last.cmd = "totp export" => ~last.in.optsErr

Walked ==
    /\ Walking
    /\ last.in.fault = 0
    /\ last.cmd = "totp export" => last.in.image = 0

\* The rows of the table the walk is over, in the backend's order.
WalkTable ==
    IF last.cmd = "webauthn list-all" THEN RowsOf(devices)
    ELSE RowsOf(TOTPRows(totp))

\* C11 (as amended): a paginated walk over an unchanging table of M rows
\* with page length L terminates after exactly (M div L) + 1 fetches, the
\* last of which returns fewer than L rows: that is ceil(M/L) fetches when M
\* is not a multiple of L and one more when it is, M = 0 included.
C11_WalkFetches ==
    Walked
    => LET f == last.out.fetches
           M == Len(WalkTable)
       IN  /\ last.out.done
           /\ Len(f) = (M \div PageLimit) + 1
           /\ f[Len(f)].n >= 0 /\ f[Len(f)].n < PageLimit

C11_Witness ==
    /\ Walked
    /\ last.cmd = "webauthn list-all"
    /\ Cardinality(devices) = 2 * PageLimit
    /\ Len(last.out.fetches) = 3
    /\ last.out.fetches[3].n = 0
    /\ last.err = NoError

\* C11 (as stated): the walk terminates after exactly ceil(M/L) fetches, the
\* last of which returns fewer than L rows, for every M >= 0.
C11_CeilFetches ==
    Walked
    => LET f == last.out.fetches
           M == Len(WalkTable)
       IN  /\ last.out.done
           /\ Len(f) = (M + PageLimit - 1) \div PageLimit
           /\ f[Len(f)].n < PageLimit

\* What a walk wrote for the rows: the output, the CSV header left out.
WalkBody ==
    IF last.cmd = "totp export" /\ last.in.format = storageTOTPExportFormatCSV
    THEN Tail(last.out.output) ELSE last.out.output

WalkLine(row) ==
    IF last.cmd = "webauthn list-all" THEN WebauthnListAllLine(row)
    ELSE TOTPExportLine(last.in.format, row)

\* C12: a paginated walk asks for the pages 0, 1, 2, ... one after the other
\* and none twice; it asks for a further page exactly when the last one came
\* back with L rows; a walk that ends without an error has written every
\* row of the table once, in the backend's order.
C12_WalkPages ==
    Walking
    => LET f == last.out.fetches
           T == WalkTable
       IN  /\ Len(f) >= 1
           /\ \A i \in 1..Len(f) : f[i].page = i - 1
           /\ \A i \in 1..(Len(f) - 1) : f[i].n = PageLimit
           /\ last.err = NoError =>
                 /\ last.out.done
                 /\ f[Len(f)].n >= 0 /\ f[Len(f)].n < PageLimit
                 /\ WalkBody = [i \in 1..Len(T) |-> WalkLine(T[i])]

C12_Witness ==
    /\ Walked
    /\ last.cmd = "totp export"
    /\ last.in.format = storageTOTPExportFormatCSV
    /\ Len(WalkTable) = MaxRows
    /\ Len(last.out.fetches) = 3
    /\ last.out.fetches[3].page = 2
    /\ Len(last.out.output) = MaxRows + 1
    /\ last.err = NoError

\* C13: an import saves the records of the file one call each, in the order
\* of the file, and stops at the first save that fails; a file with no
\* record is refused with an error and no save is made.
C13_ImportInOrder ==
    ( /\ Returned
      /\ last.cmd = "identifiers import"
      /\ last.in.stat = "file" /\ ~last.in.read )
    => LET rows == Unmarshal(last.in.data)
           n == Len(last.calls)
       IN  /\ Len(rows) = 0 => last.err # NoError /\ n = 0
           /\ last.gate # "ok" => last.err # NoError /\ n = 0
           /\ (last.gate = "ok" /\ Len(rows) > 0) =>
                 /\ n >= 1 /\ n <= Len(rows)
                 /\ \A i \in 1..n :
                       /\ last.calls[i].op = "SaveUserOpaqueIdentifier"
                       /\ last.calls[i].arg = rows[i]
                 /\ \A i \in 1..(n - 1) : last.calls[i].ok
                 /\ last.calls[n].ok <=> last.err = NoError
                 /\ last.calls[n].ok => n = Len(rows)

C13_Witness ==
    /\ Returned
    /\ last.cmd = "identifiers import"
    /\ last.gate = "ok"
    /\ Len(Unmarshal(last.in.data)) = 3
    /\ last.in.save = 2
    /\ Len(last.calls) = 2
    /\ last.calls[1].ok /\ ~last.calls[2].ok
    /\ last.err # NoError

\* The import of the document an export wrote, into a store with no row.
ImportOfExport ==
    UserIdentifiersImport([stat |-> "file", read |-> FALSE, data |-> last.out,
                           save |-> 0],
                          schemaVersion, {})

\* C14: the document written by an export of a store that holds rows, when
\* imported into an empty store, gives a store with exactly the rows
\* (service, sector, username, identifier) of the exported one.
C14_ExportImportRoundTrip ==
    ( /\ Returned
      /\ last.cmd = "identifiers export"
      /\ last.err = NoError )
    => /\ identifiers # {}
       /\ Len(last.out.identifiers) = Cardinality(identifiers)
       /\ ImportOfExport.res.err = NoError
       /\ Len(ImportOfExport.res.calls) = Cardinality(identifiers)
       /\ ImportOfExport.store = identifiers

C14_Witness ==
    /\ Returned
    /\ last.cmd = "identifiers export"
    /\ last.err = NoError
    /\ Cardinality(identifiers) >= 3
    /\ \E r, q \in identifiers :
          /\ r.sector # q.sector
          /\ r.identifier.body[1] = "given" /\ q.identifier.body[1] = "random"

\* A step in which totp generate ran past the gate and its flags.
TOTPGenerateRan ==
    /\ phase' = "returned"
    /\ last'.cmd = "totp generate"
    /\ last'.gate = "ok"
    /\ ~last'.in.optsErr

\* C15: totp generate saves over a configuration the user already has only
\* with force; without force it returns an error and the configuration stays
\* as it was; a lookup that fails with anything but not-found is returned as
\* the command's error and nothing is saved, whatever force is.
C15_TOTPGenerateForce ==
    [][TOTPGenerateRan =>
         LET u == last'.in.username
             existed == totp[u] # NoConfig
         IN  /\ (existed /\ last'.calls # <<>>) => last'.in.force
             /\ (existed /\ ~last'.in.force /\ last'.in.fault # "load") =>
                    /\ last'.err =
                         Error("already has a TOTP configuration, use --force to overwrite")
                    /\ last'.calls = <<>>
                    /\ totp' = totp
             /\ last'.in.fault = "load" =>
                    /\ last'.err = Error("LoadTOTPConfiguration")
                    /\ last'.calls = <<>>
                    /\ totp' = totp
             /\ (totp' # totp) =>
                    /\ last'.err = NoError
                    /\ existed => last'.in.force]_vars

\* A generate without force has been refused for a user who has a
\* configuration.
C15_Witness ==
    /\ Returned
    /\ last.cmd = "totp generate"
    /\ ~last.in.force
    /\ last.in.fault = "none"
    /\ totp[last.in.username] # NoConfig
    /\ last.err = Error("already has a TOTP configuration, use --force to overwrite")
    /\ last.calls = <<>>

\* The two outcomes of the backend that are not failures.
NonFatalOutcomes == {ErrNoAvailableMigrations, ErrMigrateCurrentVersionSameAsTarget}

\* What the backend reports to the migration command that returns in this
\* step, asked from the schema version the step starts at.
MigrationReport ==
    IF last'.cmd \in {"migrate up", "migrate down"}
    THEN SchemaMigrate(schemaVersion, last'.calls[1].arg[1], last'.calls[1].arg[2],
                       last'.in.fault).err
    ELSE MigrateListLoad(last'.in, schemaVersion).err

\* C16: when the backend reports that no migrations are available, or that
\* the target is the current version, a migration run (up or down) and a
\* migration listing return no error and leave the schema version as it was.
C16_NonFatalOutcomes ==
    [][( /\ phase' = "returned"
         /\ last'.cmd \in {"migrate up", "migrate down",
                            "migrate list-up", "migrate list-down"}
         /\ last'.calls # <<>>
         /\ MigrationReport \in NonFatalOutcomes )
       => /\ last'.err = NoError
          /\ schemaVersion' = schemaVersion]_vars

\* migrate up without a target, and migrate down --target 0, confirmed.
MigrateUpToLatest ==
    [up |-> TRUE, changed |-> FALSE, target |-> 0, confirm |-> "confirmed",
     fault |-> 0]

MigrateDownToZero ==
    [up |-> FALSE, changed |-> TRUE, target |-> 0, confirm |-> "confirmed",
     fault |-> 0]

\* C17: at every schema version the up listing shows exactly the versions,
\* in order, that a migrate up to the latest version would apply from there,
\* and the down listing those a migrate down to target 0 would apply; a
\* listing leaves the schema version as it was.
C17_ListIsThePlan ==
    /\ []((Returned /\ last.cmd = "migrate list-up" /\ last.err = NoError)
            => /\ last.out.direction = "Up"
               /\ last.out.migrations =
                     StorageMigrationRun(MigrateUpToLatest, schemaVersion).res.out)
    /\ []((Returned /\ last.cmd = "migrate list-down" /\ last.err = NoError)
            => /\ last.out.direction = "Down"
               /\ last.out.migrations =
                     StorageMigrationRun(MigrateDownToZero, schemaVersion).res.out)
    /\ [][last'.cmd \in {"migrate list-up", "migrate list-down"}
            => schemaVersion' = schemaVersion]_vars

C17_Witness ==
    /\ Returned
    /\ last.cmd = "migrate list-up"
    /\ last.err = NoError
    /\ schemaVersion = 0
    /\ Len(last.out.migrations) >= 2
    /\ last.out.migrations[1] = 1 /\ last.out.migrations[2] = 2

\* A step in which migrate up or migrate down called the backend.
MigrationRan ==
    /\ phase' = "returned"
    /\ last'.cmd \in {"migrate up", "migrate down"}
    /\ last'.calls # <<>>

\* C18: a migrate up from version V to a target T with V < T <= latest
\* applies the migrations V+1, ..., T, each once and in ascending order, no
\* other, and when it returns no error the schema is at version T.
C18_UpAppliesRange ==
    [][LET V == schemaVersion
           T == IF last'.in.changed THEN last'.in.target ELSE MaxVersion
           applied == last'.out
       IN  ( /\ MigrationRan /\ last'.cmd = "migrate up"
             /\ 0 <= V /\ V < T /\ T <= MaxVersion )
           => /\ Len(applied) <= T - V
              /\ \A i \in 1..Len(applied) : applied[i] = V + i
              /\ last'.err = NoError =>
                    /\ Len(applied) = T - V
                    /\ schemaVersion' = T
              /\ last'.in.fault = 0 => last'.err = NoError]_vars

C18_Witness ==
    /\ Returned
    /\ last.cmd = "migrate up"
    /\ last.in.changed /\ last.in.target = 1
    /\ last.err = NoError
    /\ last.out = <<1>>
    /\ schemaVersion = 1

\* C19: when a step of a migration run fails the run stops there: the steps
\* before it stay applied, no step after it is applied, and the schema is
\* at the version the last successful step left it at (the version the run
\* started from when the first step failed).
C19_StopsAtFailedStep ==
    [][LET V == schemaVersion
           applied == last'.out
           step(i) == IF last'.cmd = "migrate up" THEN V + i ELSE V - i
       IN  (MigrationRan /\ last'.err = Error("migration step failed"))
           => /\ last'.in.fault >= 1
              /\ Len(applied) = last'.in.fault - 1
              /\ \A i \in 1..Len(applied) : applied[i] = step(i)
              /\ schemaVersion' = step(Len(applied))]_vars

C19_Witness ==
    /\ Returned
    /\ last.cmd = "migrate up"
    /\ last.err = Error("migration step failed")
    /\ last.in.fault = 2
    /\ last.out = <<1>>
    /\ schemaVersion = 1

\* A step in which change-key called SchemaEncryptionChangeKey.
ChangeKeyRan ==
    /\ phase' = "returned"
    /\ last'.cmd = "encryption change-key"
    /\ last'.calls # <<>>

\* C20: the rows of the encrypted tables are at all times under one key.  A
\* rotation from key K to key K' that succeeds leaves every row under K'
\* (the check of K' passes, and when K' is another key than K no row is
\* under K); one that fails leaves every row under K.
C20_RotationAllOrNothing ==
    /\ [](\E k \in NewKeys \cup {InitialKey} : SchemaEncryptionCheckKey(rowKey, k))
    /\ [][ChangeKeyRan =>
            LET new == last'.calls[1].arg
            IN  /\ last'.err = NoError =>
                      /\ SchemaEncryptionCheckKey(rowKey', new)
                      /\ \A t \in EncryptedTables :
                            rowKey[t] # new => rowKey'[t] # rowKey[t]
                /\ last'.err # NoError =>
                      /\ rowKey' = rowKey
                      /\ \A k \in NewKeys \cup {InitialKey} :
                            SchemaEncryptionCheckKey(rowKey', k)
                                <=> SchemaEncryptionCheckKey(rowKey, k)]_vars

\* A rotation to another key has failed at the second table.
C20_Witness ==
    /\ Returned
    /\ last.cmd = "encryption change-key"
    /\ last.in.fault = 3
    /\ last.err = Error("SchemaEncryptionChangeKey")
    /\ last.calls[1].arg = "a-second-key-of-24-chars"
    /\ SchemaEncryptionCheckKey(rowKey, "twenty-characters-ok")

\* An encryption check that got the answer of the backend.
EncryptionChecked ==
    /\ Returned
    /\ last.cmd = "encryption check"
    /\ last.gate = "ok"
    /\ ~last.in.optsErr
    /\ last.in.fault = "none"

\* The invalid rows the validation of the key checked counts in table t.
InvalidRows(t) ==
    EncryptionValidationResult(rowKey, last.in.key, last.in.verbose,
                               EncryptedRows(totp, devices))[t].invalid

TOTPDeleteRan ==
    /\ phase' = "returned"
    /\ last'.cmd = "totp delete"
    /\ last'.gate = "ok"

\* C22: totp delete for a user who has no configuration returns an error
\* with the username in its message and does not call
\* DeleteTOTPConfiguration; a deletion is reported only when the user had a
\* configuration and the call of DeleteTOTPConfiguration succeeded.
C22_TOTPDeleteNotFound ==
    [][TOTPDeleteRan =>
         LET u == last'.in.username
         IN  /\ totp[u] = NoConfig =>
                   /\ last'.err # NoError
                   /\ last'.err.msg = "can't delete configuration for user '" \o u \o "'"
                   /\ last'.calls = <<>>
                   /\ last'.out = <<>>
                   /\ totp' = totp
             /\ last'.out # <<>> =>
                   /\ totp[u] # NoConfig
                   /\ last'.err = NoError
                   /\ Len(last'.calls) = 1
                   /\ last'.calls[1].op = "DeleteTOTPConfiguration"
                   /\ last'.calls[1].arg = u
                   /\ last'.calls[1].ok
                   /\ totp'[u] = NoConfig]_vars

\* The delete was refused for a user without a configuration: the lookup
\* answered not-found.
C22_Witness ==
    /\ Returned
    /\ last.cmd = "totp delete"
    /\ last.gate = "ok"
    /\ last.in.fault = "none"
    /\ totp[last.in.username] = NoConfig
    /\ last.err = Wrap("can't delete configuration for user 'john'", ErrNoTOTPConfiguration)
    /\ last.calls = <<>>

ReadOnlyCommands ==
    {"encryption check", "schema info", "migrate list-up", "migrate list-down",
     "migrate history", "webauthn list", "webauthn list-all", "totp export",
     "identifiers export"}

\* C23: a read-only command (encryption check, schema info, migrate list,
\* migrate history, webauthn list, totp export, identifiers export) makes no
\* mutating backend call, and on every return path the schema version, the
\* key of the encrypted rows, the devices, the TOTP configurations and the
\* opaque identifiers are what they were before it.
C23_ReadOnlyCommands ==
    /\ []((Returned /\ last.cmd \in ReadOnlyCommands)
            => CallsOf(MutatingOperations \cup {"SchemaMigrate"}) = {})
    /\ [][(phase' = "returned" /\ last'.cmd \in ReadOnlyCommands)
            => /\ schemaVersion' = schemaVersion
               /\ rowKey' = rowKey
               /\ devices' = devices
               /\ totp' = totp
               /\ identifiers' = identifiers]_vars

\* Schema info has made its four calls over rows that are under another key
\* than the configured one.
C23_Witness ==
    /\ Returned
    /\ last.cmd = "schema info"
    /\ last.err = NoError
    /\ Len(last.calls) = 4
    /\ last.out.encryption = "invalid"
    /\ rowKey["totp_configurations"] = "a-second-key-of-24-chars"
    /\ last.in.key = InitialKey

\* Both invocations have read their flags: totp generate without force for
\* the same user.
BothWithoutForce ==
    /\ \A p \in SessionIds : sessions[p].pc # "start" /\ ~sessions[p].in.force
    /\ \A p, q \in SessionIds : sessions[p].in.username = sessions[q].in.username

\* C24: of two totp generate invocations without force for the same user
\* that run side by side, at most one calls SaveTOTPConfiguration with
\* success, so that neither overwrites the configuration the other saved.
C24_AtMostOneSaves ==
    BothWithoutForce => Cardinality({p \in SessionIds : sessions[p].saved}) <= 1

\* The rows the fetches of a walk returned, failed fetches counting none.
RECURSIVE FetchedRows(_)
FetchedRows(f) ==
    IF f = <<>> THEN 0
    ELSE (IF Head(f).n > 0 THEN Head(f).n ELSE 0) + FetchedRows(Tail(f))

\* A CSV export whose first page was fetched.
CSVExported ==
    /\ Walking
    /\ last.cmd = "totp export"
    /\ last.in.format = storageTOTPExportFormatCSV
    /\ last.out.fetches[1].n >= 0

\* C25: the CSV export that got its first page writes the header row once,
\* as its first row, and after it one row for each configuration fetched;
\* over an empty store it writes the header alone, over a store of several
\* pages the header is not repeated.
C25_CSVHeaderOnce ==
    CSVExported =>
        LET o == last.out.output
        IN  /\ Len(o) >= 1
            /\ o[1] = TOTPExportHeader
            /\ \A i \in 2..Len(o) : o[i] # TOTPExportHeader
            /\ Len(o) - 1 = FetchedRows(last.out.fetches)
            /\ (last.err = NoError) => Len(o) - 1 = Cardinality(TOTPRows(totp))
            /\ TOTPRows(totp) = {} => o = <<TOTPExportHeader>>

\* A CSV export over three pages.
C25_Witness ==
    /\ CSVExported
    /\ last.err = NoError
    /\ Len(last.out.fetches) = 3
    /\ Cardinality(TOTPRows(totp)) = 2 * PageLimit + 1
    /\ Len(last.out.output) = 2 * PageLimit + 2

\* C26: webauthn list-all prints its listing only once the walk over the
\* pages is complete: over an empty store, and when the fetch of any page
\* fails, it returns an error and prints no device row, those of the pages
\* already fetched included; when it returns no error it prints every
\* device.
C26_ListAllPrintsAtEnd ==
    (Walking /\ last.cmd = "webauthn list-all") =>
        LET f == last.out.fetches
        IN  /\ devices = {} => last.err # NoError
            /\ last.in.fault \in 1..Len(f) =>
                  /\ last.err = Wrap("failed to list devices", Error("LoadWebauthnDevices"))
                  /\ Len(last.out.output) = PageLimit * (last.in.fault - 1)
            /\ last.err # NoError => last.out.printed = <<>>
            /\ last.err = NoError =>
                  /\ last.out.done
                  /\ Len(last.out.printed) = Cardinality(devices) + 1
                  /\ Tail(last.out.printed) = last.out.output

\* The fetch of the third page failed after two full pages were collected.
C26_Witness ==
    /\ Walking
    /\ last.cmd = "webauthn list-all"
    /\ last.in.fault = 3
    /\ Len(last.out.fetches) = 3
    /\ last.out.fetches[2].n = PageLimit
    /\ Len(last.out.output) = 2 * PageLimit
    /\ last.err # NoError
    /\ last.out.printed = <<>>

\* What the backend answered to the webauthn list command that returned.
WebauthnListLoaded ==
    LoadWebauthnDevicesByUsername(devices, last.in.user, last.in.fault)

\* C27: webauthn list for one user reports "user has no webauthn devices"
\* only when the backend returned no error and no device, or the not-found
\* error; every other error of the load is reported as "can't list devices
\* for user", wrapping that error.
C27_ListErrorsTold ==
    (Returned /\ last.cmd = "webauthn list" /\ last.gate = "ok") =>
        LET l == WebauthnListLoaded
            user == last.in.user
        IN  /\ last.err = Error("user '" \o user \o "' has no webauthn devices")
                  => \/ l.err = NoError /\ Len(l.devices) = 0
                     \/ l.err = ErrNoWebauthnDevice
            /\ (l.err # NoError /\ l.err # ErrNoWebauthnDevice)
                  => last.err = Wrap("can't list devices for user '" \o user \o "'",
                                     l.err)

====
